---- MODULE Spec2Model ----
(***************************************************************************)
(* AttenDesk: the break-time curriculum pipeline.                          *)
(*   services/timetable_analyzer.py   TimetableAnalyzer                    *)
(*   services/curriculum_generator.py CurriculumGenerator                  *)
(*   services/gemini_service.py       LlamaService (the task generator)    *)
(*   models/student.py, models/curriculum.py, app.py                       *)
(*                                                                         *)
(* A time string "HH:MM" / "H:MM AM" is a record [h, m, ap]; a datetime is *)
(* the number of minutes since 1900-01-01 00:00 (what strptime yields for  *)
(* a time without a date).  A Python dict is the sequence of its items in  *)
(* insertion order, with distinct keys.  A dict with optional keys is a    *)
(* record whose DOMAIN holds the keys that are present.                    *)
(*                                                                         *)
(* Two names of curriculum_generator.py are bound to the objects they are  *)
(* written for: GeminiService (line 2) is the LlamaService of              *)
(* gemini_service.py, and section_timetables (line 23) is the store of     *)
(* app.py.                                                                 *)
(***************************************************************************)
EXTENDS Integers, Sequences, FiniteSets, TLC

VARIABLES
    students_db,         \* app.py: student_id -> StudentProfile
    timetables_db,       \* app.py: "<student_id>_<date>" -> Timetable
    section_timetables,  \* app.py: "<semester>-<section>" -> timetable JSON
    response,            \* the response of the last request
    timetable_dict,      \* analyze_daily_schedule: its argument
    breaks,              \* analyze_daily_schedule: its result
    transitions,         \* get_subject_transitions: its result
    duration_minutes,    \* _classify_break_type: its argument
    break_type,          \* _classify_break_type: its result
    context,             \* _validate_and_enhance_tasks: its context argument
    tasks,               \* _validate_and_enhance_tasks: its tasks argument
    validated_tasks,     \* _validate_and_enhance_tasks: local, then result
    total_duration,      \* _validate_and_enhance_tasks: local
    task_index,          \* _validate_and_enhance_tasks: position of the for loop
    pc,                  \* position of the call under way
    call,                \* generate_daily_curriculum: its arguments
    break_periods,       \* generate_daily_curriculum: local, breaks still to do
    daily_curriculum,    \* generate_daily_curriculum: local, then result
    llm_log,             \* generate_daily_curriculum: per break, did the chat call raise
    performance_history, \* _calculate_trend: its argument, the scores in order
    trend,               \* _calculate_trend: its result
    student_profile,     \* analyze_student_performance: its argument
    analysis             \* analyze_student_performance: its result

vars == <<students_db, timetables_db, section_timetables, response,
          timetable_dict, breaks, transitions, duration_minutes, break_type,
          context, tasks, validated_tasks, total_duration, task_index,
          pc, call, break_periods, daily_curriculum, llm_log,
          performance_history, trend, student_profile, analysis>>

appVars == <<students_db, timetables_db, section_timetables, response>>
analyzeVars == <<timetable_dict, breaks, transitions>>
classifyVars == <<duration_minutes, break_type>>
validateVars == <<context, tasks, validated_tasks, total_duration, task_index>>
generateVars == <<call, break_periods, daily_curriculum, llm_log>>
trendVars == <<performance_history, trend>>
academicVars == <<student_profile, analysis>>

\* Python's None, where a dict or an object is expected
None == [none |-> TRUE]

----------------------------------------------------------------------------
(* Bounds of the model *)

MaxClasses == 3      \* classes in one analysed schedule
MaxDuration == 125   \* largest duration classified
MaxTasks == 3        \* candidates in one validated list
MaxBreak == 24       \* largest break whose candidates are validated

----------------------------------------------------------------------------
(* Time Interval Utilities: services/timetable_analyzer.py *)

T(h, m) == [h |-> h, m |-> m, ap |-> ""]
T12(h, m, ap) == [h |-> h, m |-> m, ap |-> ap]

\* a string neither format parses
BadTime == [h |-> 25, m |-> 0, ap |-> ""]

\* datetime.now().replace(second=0, microsecond=0): a wall-clock moment long
\* after 1900-01-01
Now == 46000 * 1440 + 12 * 60

\* strptime(time_str, "%I:%M %p") succeeds
Parses12(t) == t.ap \in {"AM", "PM"} /\ t.h \in 1..12 /\ t.m \in 0..59

\* strptime(time_str, "%H:%M") succeeds
Parses24(t) == t.ap = "" /\ t.h \in 0..23 /\ t.m \in 0..59

_parse_time(t) ==
    IF t.ap \in {"AM", "PM"}
    THEN IF Parses12(t)
         THEN ((t.h % 12) + (IF t.ap = "PM" THEN 12 ELSE 0)) * 60 + t.m
         ELSE Now        \* ValueError, then "%H:%M" fails on the AM/PM text too
    ELSE IF Parses24(t) THEN t.h * 60 + t.m ELSE Now

_time_to_string(dt) == [h |-> (dt % 1440) \div 60, m |-> dt % 60, ap |-> ""]

\* int((end - start).total_seconds() / 60); both are whole minutes
_calculate_duration(start, end) == end - start

break_threshold_minutes == 5

_classify_break_type_lunch(d) ==
    IF d <= 15 THEN "short"
    ELSE IF d <= 45 THEN "medium"
    ELSE IF 60 < d /\ d <= 120 THEN "lunch"
    ELSE "long"

_classify_break_type(d) ==
    IF d <= 15 THEN "short"
    ELSE IF d <= 45 THEN "medium"
    ELSE IF 60 <= d /\ d <= 120 THEN "lunch"
    ELSE "long"

----------------------------------------------------------------------------
(* Schedule Analyzer: TimetableAnalyzer.analyze_daily_schedule *)

Class(subject, start_time, end_time) ==
    [subject |-> subject, start_time |-> start_time, end_time |-> end_time]

\* Timetable.add_class: the key of a class in the schedule dict
time_slot(c) == <<c.start_time, c.end_time>>

\* the loop over schedule.items() that builds time_slots
TimeSlot(class_info) ==
    [start |-> _parse_time(class_info.start_time),
     end |-> _parse_time(class_info.end_time),
     subject |-> class_info.subject,
     info |-> class_info]

RECURSIVE InsertByStart(_, _)
\* x goes behind every slot that does not start later: the sort is stable
InsertByStart(x, s) ==
    IF s = <<>> THEN <<x>>
    ELSE IF s[Len(s)].start <= x.start THEN Append(s, x)
    ELSE Append(InsertByStart(x, SubSeq(s, 1, Len(s) - 1)), s[Len(s)])

RECURSIVE SortByStart(_)
\* time_slots.sort(key=lambda x: x['start'])
SortByStart(s) ==
    IF s = <<>> THEN <<>>
    ELSE InsertByStart(s[Len(s)], SortByStart(SubSeq(s, 1, Len(s) - 1)))

BreakPeriod_from_start(current_class, next_class) ==
    [start_time |-> _time_to_string(current_class.start),
     end_time |-> _time_to_string(next_class.start),
     duration_minutes |-> _calculate_duration(current_class.end, next_class.start),
     break_type |-> _classify_break_type(
                        _calculate_duration(current_class.end, next_class.start)),
     previous_class |-> current_class.info,
     next_class |-> next_class.info,
     assigned_tasks |-> <<>>]

\* BreakPeriod(...), then previous_class and next_class are set
BreakPeriod(current_class, next_class) ==
    [start_time |-> _time_to_string(current_class.end),
     end_time |-> _time_to_string(next_class.start),
     duration_minutes |-> _calculate_duration(current_class.end, next_class.start),
     break_type |-> _classify_break_type(
                        _calculate_duration(current_class.end, next_class.start)),
     previous_class |-> current_class.info,
     next_class |-> next_class.info,
     assigned_tasks |-> <<>>]

EmitsBreak_gt(current_class, next_class) ==
    _calculate_duration(current_class.end, next_class.start) > break_threshold_minutes

\* if duration_minutes >= self.break_threshold_minutes
EmitsBreak(current_class, next_class) ==
    _calculate_duration(current_class.end, next_class.start) >= break_threshold_minutes

RECURSIVE FindBreaks_prepend(_, _)
FindBreaks_prepend(time_slots, i) ==
    IF i > Len(time_slots) - 1 THEN <<>>
    ELSE FindBreaks_prepend(time_slots, i + 1) \o
         (IF EmitsBreak(time_slots[i], time_slots[i + 1])
          THEN <<BreakPeriod(time_slots[i], time_slots[i + 1])>>
          ELSE <<>>)

RECURSIVE FindBreaks(_, _)
\* for i in range(len(time_slots) - 1), from index i on
FindBreaks(time_slots, i) ==
    IF i > Len(time_slots) - 1 THEN <<>>
    ELSE (IF EmitsBreak(time_slots[i], time_slots[i + 1])
          THEN <<BreakPeriod(time_slots[i], time_slots[i + 1])>>
          ELSE <<>>) \o FindBreaks(time_slots, i + 1)

\* an exception that leaves the call
Raised(message) == [exception |-> message]

HasRaised(result) == "exception" \in DOMAIN result

\* a time value that is a str: one with strip()
IsText(t) == "ap" \in DOMAIN t

\* what one pass of the loop over schedule.items() raises, "" when nothing:
\* class_info['start_time'] and class_info['end_time'] are read and parsed
\* in turn, then class_info['subject'] is read; _parse_time catches
\* ValueError only
ClassError(class_info) ==
    IF "start_time" \notin DOMAIN class_info THEN "KeyError"
    ELSE IF ~IsText(class_info.start_time) THEN "AttributeError"
    ELSE IF "end_time" \notin DOMAIN class_info THEN "KeyError"
    ELSE IF ~IsText(class_info.end_time) THEN "AttributeError"
    ELSE IF "subject" \notin DOMAIN class_info THEN "KeyError"
    ELSE ""

\* the call reaches the loop and a pass of it raises
ScheduleRaises(td) ==
    /\ td # None
    /\ "schedule" \in DOMAIN td
    /\ \E k \in 1..Len(td.schedule) : ClassError(td.schedule[k]) # ""

\* the result is the sequence of breaks, or the exception of the first pass
\* of the loop that raises
analyze_daily_schedule(td) ==
    \* if not timetable_dict or not timetable_dict.get('schedule')
    IF td = None \/ "schedule" \notin DOMAIN td \/ td.schedule = <<>> THEN <<>>
    ELSE IF ScheduleRaises(td)
    THEN Raised(ClassError(td.schedule[
             CHOOSE k \in 1..Len(td.schedule) :
                 /\ ClassError(td.schedule[k]) # ""
                 /\ \A j \in 1..(k - 1) : ClassError(td.schedule[j]) = ""]))
    ELSE FindBreaks(SortByStart([k \in 1..Len(td.schedule) |-> TimeSlot(td.schedule[k])]), 1)

----------------------------------------------------------------------------
(* Subject transitions *)

\* the words of _get_transition_type that are substrings of subject.lower()
Keywords(subject) ==
    CASE subject = "Mathematics" -> {"mathematics"}
      [] subject = "Physics" -> {"physics"}
      [] subject = "Chemistry" -> {"chemistry"}
      [] subject = "Biochemistry" -> {"chemistry"}
      [] subject = "Biology" -> {"biology"}
      [] subject = "Computer Science" -> {"computer science", "computer"}
      [] subject = "English" -> {"english"}
      [] subject = "History" -> {"history"}
      [] subject = "Geography" -> {"geography"}
      [] subject = "Literature" -> {"literature"}
      [] OTHER -> {}

\* the dict related_subjects, its items in order
related_subjects ==
    << <<"mathematics", <<"physics", "chemistry", "computer science">> >>,
       <<"physics", <<"mathematics", "chemistry">> >>,
       <<"chemistry", <<"physics", "biology", "mathematics">> >>,
       <<"biology", <<"chemistry">> >>,
       <<"english", <<"literature", "history">> >>,
       <<"history", <<"geography", "social studies">> >> >>

stem_subjects == <<"mathematics", "physics", "chemistry", "biology", "computer">>

\* any(word in text for word in words)
AnyIn(words, text) == \E k \in 1..Len(words) : words[k] \in Keywords(text)

\* the loop over related_subjects.items(), from its i-th item
RECURSIVE RelatedFrom(_, _, _)
RelatedFrom(i, from_subject, to_subject) ==
    IF i > Len(related_subjects) THEN FALSE
    ELSE LET subject == related_subjects[i][1]
             related == related_subjects[i][2]
         IN  IF subject \in Keywords(from_subject) /\ AnyIn(related, to_subject) THEN TRUE
             ELSE IF subject \in Keywords(to_subject) /\ AnyIn(related, from_subject) THEN TRUE
             ELSE RelatedFrom(i + 1, from_subject, to_subject)

StemType(from_subject, to_subject) ==
    LET is_from_stem == AnyIn(stem_subjects, from_subject)
        is_to_stem == AnyIn(stem_subjects, to_subject)
    IN  IF is_from_stem /\ ~is_to_stem THEN "stem_to_humanities"
        ELSE IF ~is_from_stem /\ is_to_stem THEN "humanities_to_stem"
        ELSE IF is_from_stem /\ is_to_stem THEN "stem_to_stem"
        ELSE "unrelated"

_get_transition_type_stem_first(from_subject, to_subject) ==
    IF StemType(from_subject, to_subject) # "unrelated"
    THEN StemType(from_subject, to_subject)
    ELSE IF RelatedFrom(1, from_subject, to_subject) THEN "related"
    ELSE "unrelated"

_get_transition_type(from_subject, to_subject) ==
    IF RelatedFrom(1, from_subject, to_subject) THEN "related"
    ELSE StemType(from_subject, to_subject)

RECURSIVE get_subject_transitions(_)
\* one transition per break with both classes and different subjects
get_subject_transitions(periods) ==
    IF periods = <<>> THEN <<>>
    ELSE LET break_period == Head(periods)
             prev_subject == break_period.previous_class.subject
             next_subject == break_period.next_class.subject
         IN  (IF /\ break_period.previous_class # None
                 /\ break_period.next_class # None
                 /\ prev_subject # next_subject
              THEN <<[break_time |-> <<break_period.start_time, break_period.end_time>>,
                      from_subject |-> prev_subject,
                      to_subject |-> next_subject,
                      duration |-> break_period.duration_minutes,
                      transition_type |-> _get_transition_type(prev_subject, next_subject)]>>
              ELSE <<>>)
             \o get_subject_transitions(Tail(periods))

----------------------------------------------------------------------------
(* Strings and dicts *)

\* str.lower() on the subject names that occur
Lower(str) ==
    CASE str = "Mathematics" -> "mathematics"
      [] str = "Physics" -> "physics"
      [] str = "Chemistry" -> "chemistry"
      [] str = "History" -> "history"
      [] str = "English" -> "english"
      [] str = "Biology" -> "biology"
      [] OTHER -> str

\* str.title() on the subject names that occur
Title(str) ==
    CASE str \in {"mathematics", "Mathematics"} -> "Mathematics"
      [] str \in {"physics", "Physics"} -> "Physics"
      [] str \in {"chemistry", "Chemistry"} -> "Chemistry"
      [] str = "general" -> "General"
      [] str = "space science" -> "Space Science"
      [] OTHER -> str

\* dict.get(key, default)
Get(dict, key, default) == IF key \in DOMAIN dict THEN dict[key] ELSE default

\* dict[key] = value
Put(dict, key, value) ==
    [k \in (DOMAIN dict) \cup {key} |-> IF k = key THEN value ELSE dict[k]]

\* [f(x) for x in seq if x in set]
RECURSIVE LowerAll(_)
LowerAll(seq) ==
    IF seq = <<>> THEN <<>> ELSE <<Lower(Head(seq))>> \o LowerAll(Tail(seq))

InSeq(x, seq) == \E k \in 1..Len(seq) : seq[k] = x

----------------------------------------------------------------------------
(* Curriculum Orchestrator: CurriculumGenerator, per task *)

_adjust_difficulty_to_the_end(task, ctx) ==
    LET task_subject == Lower(Get(task, "subject", ""))
    IN  IF InSeq(task_subject, LowerAll(ctx.weak_subjects)) THEN "easy"
        ELSE IF InSeq(task_subject, LowerAll(ctx.strong_subjects)) THEN "hard"
        ELSE Get(task, "difficulty", "medium")

_adjust_difficulty(task, ctx) ==
    LET original_difficulty == Get(task, "difficulty", "medium")
        task_subject == Lower(Get(task, "subject", ""))
    IN  IF InSeq(task_subject, LowerAll(ctx.weak_subjects))
        THEN CASE original_difficulty = "hard" -> "medium"
               [] original_difficulty = "medium" -> "easy"
               [] OTHER -> original_difficulty
        ELSE IF InSeq(task_subject, LowerAll(ctx.strong_subjects))
        THEN CASE original_difficulty = "easy" -> "medium"
               [] original_difficulty = "medium" -> "hard"
               [] OTHER -> original_difficulty
        ELSE original_difficulty

\* int(base_points * multiplier), multiplier 1.0, 1.5 or 2.0; int() cuts
\* towards zero
_calculate_points(task) ==
    LET base_points == Get(task, "duration_minutes", 10)
        difficulty == Get(task, "difficulty", "medium")
        twice == CASE difficulty = "easy" -> 2 * base_points
                   [] difficulty = "hard" -> 4 * base_points
                   [] OTHER -> 3 * base_points
    IN  IF twice >= 0 THEN twice \div 2 ELSE -((-twice) \div 2)

_add_gamification_elements_adjusted(task, ctx) ==
    LET adjusted == Put(task, "difficulty", _adjust_difficulty(task, ctx))
    IN  [points |-> _calculate_points(adjusted),
         streak_bonus |-> ctx.duration_minutes > 20,
         challenge_level |-> adjusted.difficulty]

\* the badges are not modelled
_add_gamification_elements(task, ctx) ==
    [points |-> _calculate_points(task),
     streak_bonus |-> ctx.duration_minutes > 20,
     challenge_level |-> Get(task, "difficulty", "medium")]

\* task_id, personalization_reason and success_criteria are not modelled
_enhance_task(task, ctx) ==
    Put(Put(task, "difficulty", _adjust_difficulty(task, ctx)),
        "gamification", _add_gamification_elements(task, ctx))

_create_fallback_task_last(fallback_minutes, ctx) ==
    LET weak_subjects == ctx.weak_subjects
        subject == IF weak_subjects # <<>> THEN weak_subjects[Len(weak_subjects)]
                   ELSE "general"
    IN  [title |-> <<"Quick {} Review", Title(subject)>>,
         duration_minutes |-> fallback_minutes,
         subject |-> subject,
         difficulty |-> "easy",
         gamification |-> [points |-> fallback_minutes,
                           streak_bonus |-> FALSE,
                           challenge_level |-> "easy"]]

_create_fallback_task(fallback_minutes, ctx) ==
    LET weak_subjects == ctx.weak_subjects
        subject == IF weak_subjects # <<>> THEN weak_subjects[1] ELSE "general"
    IN  [title |-> <<"Quick {} Review", Title(subject)>>,
         duration_minutes |-> fallback_minutes,
         subject |-> subject,
         difficulty |-> "easy",
         gamification |-> [points |-> fallback_minutes,
                           streak_bonus |-> FALSE,
                           challenge_level |-> "easy"]]

----------------------------------------------------------------------------
(* CurriculumGenerator._validate_and_enhance_tasks *)

\* max_duration = context['duration_minutes'] - 2
max_duration(ctx) == ctx.duration_minutes - 2

Fits_no_buffer(task, total, ctx) ==
    total + Get(task, "duration_minutes", 10) <= ctx.duration_minutes

\* if total_duration + task_duration <= max_duration
Fits(task, total, ctx) ==
    total + Get(task, "duration_minutes", 10) <= max_duration(ctx)

\* the locals when the for loop starts
LoopStart == [validated_tasks |-> <<>>, total_duration |-> 0, stop |-> FALSE]

LoopBody_stop_at_misfit(st, task, ctx) ==
    IF Fits(task, st.total_duration, ctx)
    THEN [validated_tasks |-> Append(st.validated_tasks, _enhance_task(task, ctx)),
          total_duration |-> st.total_duration + Get(task, "duration_minutes", 10),
          stop |-> Len(st.validated_tasks) + 1 >= 2]
    ELSE [validated_tasks |-> st.validated_tasks,
          total_duration |-> st.total_duration,
          stop |-> TRUE]

\* one pass of the body of the for loop; stop: the break was taken
LoopBody(st, task, ctx) ==
    LET accepted == IF Fits(task, st.total_duration, ctx)
                    THEN Append(st.validated_tasks, _enhance_task(task, ctx))
                    ELSE st.validated_tasks
        total == IF Fits(task, st.total_duration, ctx)
                 THEN st.total_duration + Get(task, "duration_minutes", 10)
                 ELSE st.total_duration
    IN  [validated_tasks |-> accepted,
         total_duration |-> total,
         stop |-> Len(accepted) >= 2]

RECURSIVE ForLoop(_, _, _, _)
\* for task in tasks, from index i on
ForLoop(task_list, i, st, ctx) ==
    IF i > Len(task_list) \/ st.stop THEN st
    ELSE ForLoop(task_list, i + 1, LoopBody(st, task_list[i], ctx), ctx)

AfterLoop_gt6(validated, ctx) ==
    IF validated = <<>> /\ max_duration(ctx) > 6
    THEN <<_create_fallback_task(max_duration(ctx), ctx)>>
    ELSE validated

AfterLoop_always(validated, ctx) ==
    IF validated = <<>>
    THEN <<_create_fallback_task(max_duration(ctx), ctx)>>
    ELSE validated

\* if not validated_tasks and max_duration > 5: append the fallback task
AfterLoop(validated, ctx) ==
    IF validated = <<>> /\ max_duration(ctx) > 5
    THEN <<_create_fallback_task(max_duration(ctx), ctx)>>
    ELSE validated

_validate_and_enhance_tasks(task_list, ctx) ==
    AfterLoop(ForLoop(task_list, 1, LoopStart, ctx).validated_tasks, ctx)

----------------------------------------------------------------------------
(* The task generator: LlamaService, services/gemini_service.py.  The      *)
(* model's reply is the sequence of the sections that follow "Task n:" in  *)
(* its text; a section is blank or holds some of the lines Title:,         *)
(* Duration: (its first number) and Subject:.                              *)

BlankSection == [blank |-> TRUE]

_extract_task_from_section(section) ==
    [title |-> <<Get(section, "title", "Learning Activity")>>,
     duration_minutes |-> Get(section, "duration", 10),
     subject |-> IF "subject" \in DOMAIN section THEN Lower(section.subject)
                 ELSE "general",
     difficulty |-> "medium"]

_simple_parse ==
    <<[title |-> <<"Quick Learning Activity">>,
       duration_minutes |-> 10,
       subject |-> "general",
       difficulty |-> "medium"]>>

RECURSIVE ExtractAll(_)
\* the loop over task_sections[1:]
ExtractAll(sections) ==
    IF sections = <<>> THEN <<>>
    ELSE (IF Head(sections) = BlankSection THEN <<>>
          ELSE <<_extract_task_from_section(Head(sections))>>)
         \o ExtractAll(Tail(sections))

\* seq[:n]
Prefix(seq, n) == SubSeq(seq, 1, IF Len(seq) < n THEN Len(seq) ELSE n)

_parse_llama_response(sections) ==
    Prefix(IF ExtractAll(sections) = <<>> THEN _simple_parse
           ELSE ExtractAll(sections), 2)

\* min(a, b)
Min(a, b) == IF a <= b THEN a ELSE b

_get_fallback_tasks_whole_second(ctx) ==
    LET duration == Get(ctx, "duration_minutes", 15)
        weak_subjects == Get(ctx, "weak_subjects", <<>>)
        first ==
            IF weak_subjects # <<>>
            THEN <<[title |-> <<"{} Quick Review", Title(weak_subjects[1])>>,
                    duration_minutes |-> Min(duration \div 2, 10),
                    subject |-> Lower(weak_subjects[1]),
                    difficulty |-> "easy"]>>
            ELSE <<>>
    IN  first \o <<[title |-> <<"Mindful Learning Review">>,
                     duration_minutes |-> duration - 2 - Len(first) * Min(duration \div 2, 10),
                     subject |-> "general",
                     difficulty |-> "easy"]>>

_get_fallback_tasks(ctx) ==
    LET duration == Get(ctx, "duration_minutes", 15)
        weak_subjects == Get(ctx, "weak_subjects", <<>>)
        interests == Get(ctx, "interests", <<>>)
        previous_subject == Get(ctx, "previous_subject", "")
        next_subject == Get(ctx, "next_subject", "")
        first ==
            IF weak_subjects # <<>>
            THEN <<[title |-> <<"{} Quick Review", Title(weak_subjects[1])>>,
                    duration_minutes |-> Min(duration \div 2, 10),
                    subject |-> Lower(weak_subjects[1]),
                    difficulty |-> "easy"]>>
            ELSE <<>>
        rest == IF first # <<>> THEN duration - first[1].duration_minutes
                ELSE duration
        second ==
            IF previous_subject # "" /\ next_subject # ""
               /\ previous_subject # next_subject
            THEN <<[title |-> <<"{} to {} Bridge", previous_subject, next_subject>>,
                    duration_minutes |-> rest,
                    subject |-> "interdisciplinary",
                    difficulty |-> "medium"]>>
            ELSE IF interests # <<>>
            THEN <<[title |-> <<"{} Learning Connection", Title(interests[1])>>,
                    duration_minutes |-> rest,
                    subject |-> "interdisciplinary",
                    difficulty |-> "medium"]>>
            ELSE <<>>
        generic ==
            <<[title |-> <<"Mindful Learning Review">>,
               duration_minutes |-> duration,
               subject |-> "general",
               difficulty |-> "easy"]>>
    IN  Prefix(IF first \o second = <<>> THEN generic ELSE first \o second, 2)

generate_micro_tasks_reraise(ctx, outcome) ==
    IF outcome.raises
    THEN [raised |-> TRUE, tasks |-> <<>>]
    ELSE [raised |-> FALSE, tasks |-> _parse_llama_response(outcome.sections)]

\* outcome: what the chat call does, raise or reply; the result: whether
\* generate_micro_tasks raised, and the tasks it returned
generate_micro_tasks(ctx, outcome) ==
    IF outcome.raises
    THEN [raised |-> FALSE, tasks |-> _get_fallback_tasks(ctx)]
    ELSE [raised |-> FALSE, tasks |-> _parse_llama_response(outcome.sections)]

----------------------------------------------------------------------------
(* models/student.py, services/academic_analyzer.py: the performance       *)
(* analysis.  The performance dict is the sequence of its items            *)
(* [subject, scores], scores being the 'score' of each record, oldest      *)
(* first.  An average is never divided out: comparisons are made on the    *)
(* sums multiplied by the lengths.                                         *)

WEAK_SUBJECT_THRESHOLD == 60
STRONG_SUBJECT_THRESHOLD == 80

RECURSIVE Sum(_)
Sum(scores) == IF scores = <<>> THEN 0 ELSE Head(scores) + Sum(Tail(scores))

\* seq[-n:]
Last(seq, n) ==
    IF Len(seq) <= n THEN seq ELSE SubSeq(seq, Len(seq) - n + 1, Len(seq))

\* avg_second - avg_first compared with bound, the averages being
\* sum(half) / len(half): the sign of the comparison as -1, 0 or 1
DiffAgainst(first_half, second_half, bound) ==
    LET lhs == Sum(second_half) * Len(first_half) - Sum(first_half) * Len(second_half)
        rhs == bound * Len(first_half) * Len(second_half)
    IN  IF lhs > rhs THEN 1 ELSE IF lhs < rhs THEN -1 ELSE 0

_calculate_trend_ge(history) ==
    IF Len(history) < 2 THEN "insufficient_data"
    ELSE LET scores == Last(history, 5)
             first_half == SubSeq(scores, 1, Len(scores) \div 2)
             second_half == SubSeq(scores, Len(scores) \div 2 + 1, Len(scores))
         IN  IF DiffAgainst(first_half, second_half, 5) >= 0 THEN "improving"
             ELSE IF DiffAgainst(first_half, second_half, -5) <= 0 THEN "declining"
             ELSE "stable"

\* history: the scores of performance_history, oldest first
_calculate_trend(history) ==
    IF Len(history) < 2 THEN "insufficient_data"
    ELSE LET scores == Last(history, 5)
             first_half == SubSeq(scores, 1, Len(scores) \div 2)
             second_half == SubSeq(scores, Len(scores) \div 2 + 1, Len(scores))
         IN  IF DiffAgainst(first_half, second_half, 5) > 0 THEN "improving"
             ELSE IF DiffAgainst(first_half, second_half, -5) < 0 THEN "declining"
             ELSE "stable"

AverageBelow_le(scores, threshold) ==
    IF scores = <<>> THEN 0 <= threshold
    ELSE Sum(scores) <= threshold * Len(scores)

\* get_average_score(subject) < threshold, the average being
\* sum(scores) / len(scores), or 0.0 without scores
AverageBelow(scores, threshold) ==
    IF scores = <<>> THEN 0 < threshold
    ELSE Sum(scores) < threshold * Len(scores)

\* scores: those of the subject whose average is avg_score; tr: its trend
_calculate_priority(scores, tr) ==
    Min((IF AverageBelow(scores, 40) THEN 5
         ELSE IF AverageBelow(scores, 60) THEN 3
         ELSE IF AverageBelow(scores, 70) THEN 1 ELSE 0)
        + (IF tr = "declining" THEN 3
           ELSE IF tr = "stable" /\ AverageBelow(scores, WEAK_SUBJECT_THRESHOLD) THEN 2
           ELSE 0),
        10)

RECURSIVE InsertByPriority_before(_, _)
InsertByPriority_before(x, sorted) ==
    IF sorted = <<>> THEN <<x>>
    ELSE IF Head(sorted).priority <= x.priority THEN <<x>> \o sorted
    ELSE <<Head(sorted)>> \o InsertByPriority_before(x, Tail(sorted))

RECURSIVE InsertByPriority(_, _)
\* x placed after every entry of priority >= its own
InsertByPriority(x, sorted) ==
    IF sorted = <<>> THEN <<x>>
    ELSE IF Head(sorted).priority < x.priority THEN <<x>> \o sorted
    ELSE <<Head(sorted)>> \o InsertByPriority(x, Tail(sorted))

RECURSIVE SortByPriority(_)
\* list.sort(key=priority, reverse=True): descending, equal priorities in
\* their original order
SortByPriority(areas) ==
    IF areas = <<>> THEN <<>>
    ELSE InsertByPriority(areas[Len(areas)],
                          SortByPriority(SubSeq(areas, 1, Len(areas) - 1)))

NeedsImprovement_weak_only(entry) ==
    AverageBelow(entry.scores, WEAK_SUBJECT_THRESHOLD)

\* trend == "declining" or avg_score < self.weak_threshold
NeedsImprovement(entry) ==
    \/ _calculate_trend(entry.scores) = "declining"
    \/ AverageBelow(entry.scores, WEAK_SUBJECT_THRESHOLD)

\* recent_poor_topics and suggested_focus are not modelled
_identify_improvement_areas(performance) ==
    LET selected == SelectSeq(performance, NeedsImprovement)
    IN  SortByPriority([k \in 1..Len(selected) |->
            [subject |-> selected[k].subject,
             priority |-> _calculate_priority(selected[k].scores,
                                              _calculate_trend(selected[k].scores))]])

\* skill_connections.get(key), "" standing for None
skill_connections(key) ==
    CASE key = <<"mathematics", "physics">> -> "mathematical problem solving"
      [] key = <<"physics", "chemistry">> -> "scientific reasoning"
      [] key = <<"chemistry", "biology">> -> "molecular understanding"
      [] key = <<"english", "history">> -> "analytical writing"
      [] OTHER -> ""

\* the average of scores1 against that of scores2 plus delta: -1, 0 or 1
CompareAverages(scores1, scores2, delta) ==
    LET n1 == IF scores1 = <<>> THEN 1 ELSE Len(scores1)
        n2 == IF scores2 = <<>> THEN 1 ELSE Len(scores2)
        lhs == Sum(scores1) * n2
        rhs == Sum(scores2) * n1 + delta * n1 * n2
    IN  IF lhs > rhs THEN 1 ELSE IF lhs < rhs THEN -1 ELSE 0

SignificantGap_ge(entry1, entry2) ==
    \/ CompareAverages(entry1.scores, entry2.scores, 20) >= 0
    \/ CompareAverages(entry2.scores, entry1.scores, 20) >= 0

\* abs(score1 - score2) > 20
SignificantGap(entry1, entry2) ==
    \/ CompareAverages(entry1.scores, entry2.scores, 20) > 0
    \/ CompareAverages(entry2.scores, entry1.scores, 20) > 0

\* the gap of two subjects as a list: empty for None; gap_size and
\* recommendation are not modelled
_find_subject_gap(entry1, entry2) ==
    IF ~SignificantGap(entry1, entry2) THEN <<>>
    ELSE LET first_lower == CompareAverages(entry1.scores, entry2.scores, 0) < 0
             weaker_subject == IF first_lower THEN entry1.subject ELSE entry2.subject
             stronger_subject == IF first_lower THEN entry2.subject ELSE entry1.subject
             connection_key == <<Lower(weaker_subject), Lower(stronger_subject)>>
             reverse_key == <<Lower(stronger_subject), Lower(weaker_subject)>>
             skill == IF skill_connections(connection_key) # ""
                      THEN skill_connections(connection_key)
                      ELSE skill_connections(reverse_key)
         IN  IF skill = "" THEN <<>>
             ELSE <<[weaker_subject |-> weaker_subject,
                     stronger_subject |-> stronger_subject,
                     connecting_skill |-> skill]>>

RECURSIVE GapsFrom(_, _, _)
\* the two loops, from the pair (i, j) on
GapsFrom(performance, i, j) ==
    IF i > Len(performance) THEN <<>>
    ELSE IF j > Len(performance) THEN GapsFrom(performance, i + 1, i + 2)
    ELSE _find_subject_gap(performance[i], performance[j])
             \o GapsFrom(performance, i, j + 1)

_analyze_learning_gaps(performance) == GapsFrom(performance, 1, 2)

\* the recommendation lines, each the tuple of what its text is built from
WeakLines(weak) == [k \in 1..Len(weak) |-> <<"Focus on", weak[k].subject>>]

DecliningLines(trends) ==
    LET declining == SelectSeq(trends, LAMBDA t : t.trend = "declining")
    IN  [k \in 1..Len(declining) |-> <<"Address declining", declining[k].subject>>]

\* for interest in student.interests: one line if weak_subjects
InterestLines(interests, weak) ==
    IF weak = <<>> THEN <<>>
    ELSE [k \in 1..Len(interests) |->
             <<"Connect your interest in", interests[k], weak[1].subject>>]

_generate_recommendations(weak, trends, interests) ==
    Prefix(WeakLines(weak) \o DecliningLines(trends) \o InterestLines(interests, weak), 5)

\* the loop over student.academic_performance: the weak subjects are those
\* of average < 60, the strong ones those of average >= 80; of each entry the
\* subject is kept, of performance_trends the trend
analyze_student_performance(student) ==
    LET performance == student.academic_performance
        Weak(entry) == AverageBelow(entry.scores, WEAK_SUBJECT_THRESHOLD)
        Strong(entry) == /\ ~AverageBelow(entry.scores, WEAK_SUBJECT_THRESHOLD)
                         /\ ~AverageBelow(entry.scores, STRONG_SUBJECT_THRESHOLD)
        Entry(e) == [subject |-> e.subject]
        weak == SelectSeq(performance, Weak)
        strong == SelectSeq(performance, Strong)
        weak_subjects == [k \in 1..Len(weak) |-> Entry(weak[k])]
        performance_trends ==
            [k \in 1..Len(performance) |->
                [subject |-> performance[k].subject,
                 trend |-> _calculate_trend(performance[k].scores)]]
    IN  [weak_subjects |-> weak_subjects,
         strong_subjects |-> [k \in 1..Len(strong) |-> Entry(strong[k])],
         performance_trends |-> performance_trends,
         improvement_areas |-> _identify_improvement_areas(performance),
         learning_gaps |-> _analyze_learning_gaps(performance),
         recommendations |-> _generate_recommendations(weak_subjects, performance_trends,
                                                       student.interests)]

----------------------------------------------------------------------------
(* models/curriculum.py *)

DailyCurriculum(student_id, date) ==
    [student_id |-> student_id,
     date |-> date,
     break_periods |-> <<>>,
     total_tasks |-> 0,
     estimated_learning_time |-> 0,
     subjects_covered |-> {}]

add_break_curriculum_count_only(curriculum, break_period) ==
    LET assigned == break_period.assigned_tasks
    IN  [curriculum EXCEPT
            !.break_periods = Append(@, break_period),
            !.total_tasks = @ + Len(assigned),
            !.estimated_learning_time = @ + Len(assigned),
            !.subjects_covered =
                @ \cup {assigned[k].subject : k \in {j \in 1..Len(assigned) :
                                                       assigned[j].subject # ""}}]

add_break_curriculum_skip_empty(curriculum, break_period) ==
    LET assigned == break_period.assigned_tasks
    IN  IF assigned = <<>> THEN curriculum
        ELSE [curriculum EXCEPT
                !.break_periods = Append(@, break_period),
                !.total_tasks = @ + Len(assigned),
                !.estimated_learning_time =
                    @ + Sum([k \in 1..Len(assigned) |-> assigned[k].duration_minutes]),
                !.subjects_covered =
                    @ \cup {assigned[k].subject : k \in {j \in 1..Len(assigned) :
                                                           assigned[j].subject # ""}}]

\* self.subjects_covered is a set: a subject is added once, '' never
add_break_curriculum(curriculum, break_period) ==
    LET assigned == break_period.assigned_tasks
    IN  [curriculum EXCEPT
            !.break_periods = Append(@, break_period),
            !.total_tasks = @ + Len(assigned),
            !.estimated_learning_time =
                @ + Sum([k \in 1..Len(assigned) |-> assigned[k].duration_minutes]),
            !.subjects_covered =
                @ \cup {assigned[k].subject : k \in {j \in 1..Len(assigned) :
                                                       assigned[j].subject # ""}}]

\* MicroTask.to_dict; created_at and the fields the model leaves out apart
MicroTask_to_dict(task) ==
    [title |-> task.title,
     duration_minutes |-> task.duration_minutes,
     difficulty |-> task.difficulty,
     subject |-> task.subject]

\* BreakPeriod.to_dict
BreakPeriod_to_dict(break_period) ==
    [start_time |-> break_period.start_time,
     end_time |-> break_period.end_time,
     duration_minutes |-> break_period.duration_minutes,
     break_type |-> break_period.break_type,
     previous_class |-> break_period.previous_class,
     next_class |-> break_period.next_class,
     assigned_tasks |-> [k \in 1..Len(break_period.assigned_tasks) |->
                            MicroTask_to_dict(break_period.assigned_tasks[k])]]

\* list(a_set): its elements once each, in an order the set decides
Orderings(a_set) ==
    {order \in [1..Cardinality(a_set) -> a_set] :
        \A i, j \in 1..Cardinality(a_set) : order[i] = order[j] => i = j}

\* DailyCurriculum.to_dict, order being list(self.subjects_covered)
to_dict(curriculum, order) ==
    [student_id |-> curriculum.student_id,
     date |-> curriculum.date,
     break_periods |-> [k \in 1..Len(curriculum.break_periods) |->
                           BreakPeriod_to_dict(curriculum.break_periods[k])],
     total_tasks |-> curriculum.total_tasks,
     estimated_learning_time |-> curriculum.estimated_learning_time,
     subjects_covered |-> order]

----------------------------------------------------------------------------
(* CurriculumGenerator.generate_daily_curriculum *)

Subjects(entries) == [k \in 1..Len(entries) |-> entries[k].subject]

\* student_id, learning_style, career_goals, the topics, improvement_areas and
\* recent_poor_topics are not modelled
_build_generation_context(break_period, student, academic_analysis) ==
    [duration_minutes |-> break_period.duration_minutes,
     break_type |-> break_period.break_type,
     interests |-> student.interests,
     weak_subjects |-> Subjects(academic_analysis.weak_subjects),
     strong_subjects |-> Subjects(academic_analysis.strong_subjects),
     previous_subject |-> break_period.previous_class.subject,
     next_subject |-> break_period.next_class.subject]

\* the MicroTask: it keeps no gamification
_create_micro_task(task_data) ==
    [title |-> Get(task_data, "title", <<"Learning Task">>),
     duration_minutes |-> Get(task_data, "duration_minutes", 10),
     difficulty |-> Get(task_data, "difficulty", "medium"),
     subject |-> Get(task_data, "subject", "general")]

\* getattr(student, 'semester', None) and student.section, as f"{..}-{..}"
SectionKey(student) == <<Get(student, "semester", "None"), student.section>>

\* the timetable the breaks come from, None when there is none
ResolveTimetable(student, td, sections) ==
    IF td # None THEN td
    ELSE IF SectionKey(student) \in DOMAIN sections
    THEN sections[SectionKey(student)]
    ELSE None

BreakBody_shared(curriculum, break_period, student, outcome) ==
    LET ctx == _build_generation_context(break_period, student,
                                         analyze_student_performance(student))
        generated == generate_micro_tasks(ctx, outcome)
        validated == _validate_and_enhance_tasks(generated.tasks, ctx)
        micro_tasks == [k \in 1..Len(validated) |-> _create_micro_task(validated[k])]
    IN  add_break_curriculum(
            [curriculum EXCEPT !.break_periods =
                [k \in 1..Len(@) |-> [@[k] EXCEPT !.assigned_tasks = micro_tasks]]],
            [break_period EXCEPT !.assigned_tasks = micro_tasks])

\* the body of the loop over break_periods, for the first of them; outcome is
\* what the chat call of this break does
BreakBody(curriculum, break_period, student, outcome) ==
    LET ctx == _build_generation_context(break_period, student,
                                         analyze_student_performance(student))
        generated == generate_micro_tasks(ctx, outcome)
        validated == _validate_and_enhance_tasks(generated.tasks, ctx)
        micro_tasks == [k \in 1..Len(validated) |-> _create_micro_task(validated[k])]
    IN  IF generated.raised THEN Raised("generate_micro_tasks")
        ELSE add_break_curriculum(curriculum,
                 [break_period EXCEPT !.assigned_tasks = micro_tasks])

----------------------------------------------------------------------------
(* The values of the variables a specification does not use *)

IdleApp ==
    /\ students_db = <<>>
    /\ timetables_db = <<>>
    /\ section_timetables = <<>>
    /\ response = None

IdleAnalyze == timetable_dict = None /\ breaks = <<>> /\ transitions = <<>>

IdleClassify == duration_minutes = 0 /\ break_type = ""

IdleValidate ==
    /\ context = None
    /\ tasks = <<>>
    /\ validated_tasks = <<>>
    /\ total_duration = 0
    /\ task_index = 0

IdleGenerate ==
    /\ call = None
    /\ break_periods = <<>>
    /\ daily_curriculum = None
    /\ llm_log = <<>>

IdleTrend == performance_history = <<>> /\ trend = ""

IdleAcademic == student_profile = None /\ analysis = None

----------------------------------------------------------------------------
(* analyze_daily_schedule applied to every schedule of at most MaxClasses  *)
(* classes of ClassPool                                                    *)

ClassPool ==
    { Class("Mathematics", T(9, 0), T(10, 0)),
      Class("Physics", T(10, 15), T(11, 15)),
      Class("Chemistry", T(10, 5), T(10, 10)),      \* 5 minutes after 10:00
      Class("Chemistry", T(10, 4), T(10, 12)),      \* 4 minutes after 10:00
      Class("Biology", T(9, 10), T(9, 40)),         \* inside 09:00-10:00
      Class("Physics", T(9, 0), T(9, 30)),          \* starts with Mathematics
      Class("English", T12(2, 0, "PM"), T12(3, 0, "PM")),
      Class("History", T(11, 0), T(10, 50)),        \* ends before it starts
      Class("Geography", BadTime, T(12, 0)) }       \* a start that does not parse

\* class entries the loop cannot read: without 'start_time', without
\* 'end_time', without 'subject', and with a number as start time
MalformedPool ==
    { [subject |-> "Art", end_time |-> T(14, 0)],
      [subject |-> "Art", start_time |-> T(13, 0)],
      [start_time |-> T(13, 0), end_time |-> T(14, 0)],
      Class("Art", [number |-> 1300], T(14, 0)) }

\* the items of a dict: no key twice
DistinctKeys(s) ==
    \A a, b \in 1..Len(s) :
        a # b => <<Get(s[a], "start_time", None), Get(s[a], "end_time", None)>>
                    # <<Get(s[b], "start_time", None), Get(s[b], "end_time", None)>>

Schedules(pool, n) ==
    {s \in UNION {[1..k -> pool] : k \in 0..n} : DistinctKeys(s)}

AnalyzeInputs ==
    {None, [student_id |-> "S1"]}
        \cup {[schedule |-> s] : s \in Schedules(ClassPool \cup MalformedPool, MaxClasses)}

InitAnalyze ==
    /\ timetable_dict \in AnalyzeInputs
    /\ breaks = <<>>
    /\ transitions = <<>>
    /\ pc = "analyze"
    /\ IdleApp /\ IdleClassify /\ IdleValidate /\ IdleGenerate /\ IdleTrend /\ IdleAcademic

Analyze ==
    /\ pc = "analyze"
    /\ breaks' = analyze_daily_schedule(timetable_dict)
    /\ pc' = IF ScheduleRaises(timetable_dict) THEN "raised" ELSE "done"
    /\ UNCHANGED <<timetable_dict, transitions, appVars, classifyVars, validateVars, generateVars,
                   trendVars, academicVars>>

NextAnalyze == Analyze

SpecAnalyze == InitAnalyze /\ [][NextAnalyze]_vars

----------------------------------------------------------------------------
(* get_subject_transitions applied to the breaks between every sequence of  *)
(* at most MaxTransitions + 1 classes of SubjectNames                       *)

MaxTransitions == 2

SubjectNames ==
    {"Mathematics", "Physics", "Chemistry", "Biochemistry", "Biology",
     "Computer Science", "English", "History", "Geography", "Literature", "Art"}

\* the classes around a break: BreakPeriod leaves them None until they are set
AroundBreak == {None} \cup {[subject |-> subject] : subject \in SubjectNames}

\* a break of 15 minutes after 10:00
BreakBetween(previous_class, next_class) ==
    [start_time |-> T(10, 0),
     end_time |-> T(10, 15),
     duration_minutes |-> 15,
     break_type |-> _classify_break_type(15),
     previous_class |-> previous_class,
     next_class |-> next_class,
     assigned_tasks |-> <<>>]

\* the breaks of a day: the class after a break is the class before the next
TransitionInputs ==
    UNION {{[k \in 1..n |-> BreakBetween(classes[k], classes[k + 1])] :
                classes \in [1..(n + 1) -> AroundBreak]} :
              n \in 1..MaxTransitions}

InitTransitions ==
    /\ breaks \in TransitionInputs
    /\ transitions = <<>>
    /\ timetable_dict = None
    /\ pc = "transitions"
    /\ IdleApp /\ IdleClassify /\ IdleValidate /\ IdleGenerate /\ IdleTrend /\ IdleAcademic

GetTransitions ==
    /\ pc = "transitions"
    /\ transitions' = get_subject_transitions(breaks)
    /\ pc' = "done"
    /\ UNCHANGED <<timetable_dict, breaks, appVars, classifyVars, validateVars,
                   generateVars, trendVars, academicVars>>

NextTransitions == GetTransitions

SpecTransitions == InitTransitions /\ [][NextTransitions]_vars

----------------------------------------------------------------------------
(* _classify_break_type applied to every duration up to MaxDuration *)

InitClassify ==
    /\ duration_minutes \in -5..MaxDuration
    /\ break_type = ""
    /\ pc = "classify"
    /\ IdleApp /\ IdleAnalyze /\ IdleValidate /\ IdleGenerate /\ IdleTrend /\ IdleAcademic

Classify ==
    /\ pc = "classify"
    /\ break_type' = _classify_break_type(duration_minutes)
    /\ pc' = "done"
    /\ UNCHANGED <<duration_minutes, appVars, analyzeVars, validateVars, generateVars,
                   trendVars, academicVars>>

NextClassify == Classify

SpecClassify == InitClassify /\ [][NextClassify]_vars

----------------------------------------------------------------------------
(* _calculate_trend applied to every history of at most MaxHistory scores  *)
(* of ScorePool                                                            *)

MaxHistory == 6

ScorePool == {45, 50, 55, 90}

InitTrend ==
    /\ performance_history \in UNION {[1..n -> ScorePool] : n \in 0..MaxHistory}
    /\ trend = ""
    /\ pc = "trend"
    /\ IdleApp /\ IdleAnalyze /\ IdleClassify /\ IdleValidate /\ IdleGenerate
    /\ IdleAcademic

Trend ==
    /\ pc = "trend"
    /\ trend' = _calculate_trend(performance_history)
    /\ pc' = "done"
    /\ UNCHANGED <<performance_history, appVars, analyzeVars, classifyVars,
                   validateVars, generateVars, academicVars>>

NextTrend == Trend

SpecTrend == InitTrend /\ [][NextTrend]_vars

----------------------------------------------------------------------------
(* _validate_and_enhance_tasks applied to every list of at most MaxTasks   *)
(* candidates of TaskPool, for every break of 5 to MaxBreak minutes; one   *)
(* step per pass of its for loop                                           *)

Task(title, minutes, subject, difficulty) ==
    [title |-> <<title>>, duration_minutes |-> minutes,
     subject |-> subject, difficulty |-> difficulty]

TaskPool ==
    { Task("Formula drill", 3, "physics", "medium"),
      Task("Learning Activity", 10, "general", "medium"),
      Task("Proof sketch", 20, "mathematics", "hard"),
      Task("Lab recap", 0, "chemistry", "easy"),
      \* a dict without 'duration_minutes'
      [title |-> <<"Reading">>, subject |-> "Physics", difficulty |-> "hard"] }

Context(minutes, weak, strong, interests, previous_subject, next_subject) ==
    [duration_minutes |-> minutes,
     break_type |-> _classify_break_type(minutes),
     interests |-> interests,
     weak_subjects |-> weak,
     strong_subjects |-> strong,
     previous_subject |-> previous_subject,
     next_subject |-> next_subject]

ValidateContexts ==
    { Context(d, ws[1], ws[2], <<>>, "Mathematics", "Physics") :
        d \in break_threshold_minutes..MaxBreak,
        ws \in { <<<<>>, <<>>>>,
                 <<<<"Physics">>, <<"Chemistry">>>>,
                 <<<<"Mathematics", "Physics">>, <<>>>>,
                 <<<<"Chemistry">>, <<"Physics", "Mathematics">>>> } }

InitValidate ==
    /\ context \in ValidateContexts
    /\ tasks \in UNION {[1..k -> TaskPool] : k \in 0..MaxTasks}
    /\ validated_tasks = LoopStart.validated_tasks
    /\ total_duration = LoopStart.total_duration
    /\ task_index = 1
    /\ pc = "for_loop"
    /\ IdleApp /\ IdleAnalyze /\ IdleClassify /\ IdleGenerate /\ IdleTrend /\ IdleAcademic

\* one pass of the for loop
ValidateTask ==
    /\ pc = "for_loop"
    /\ task_index <= Len(tasks)
    /\ LET st == LoopBody([validated_tasks |-> validated_tasks,
                           total_duration |-> total_duration,
                           stop |-> FALSE],
                          tasks[task_index], context)
       IN  /\ validated_tasks' = st.validated_tasks
           /\ total_duration' = st.total_duration
           /\ task_index' = task_index + 1
           /\ pc' = IF st.stop THEN "after_loop" ELSE "for_loop"
    /\ UNCHANGED <<context, tasks, appVars, analyzeVars, classifyVars, generateVars,
                   trendVars, academicVars>>

\* the candidates are exhausted
ValidateExhausted ==
    /\ pc = "for_loop"
    /\ task_index > Len(tasks)
    /\ pc' = "after_loop"
    /\ UNCHANGED <<validateVars, appVars, analyzeVars, classifyVars, generateVars,
                   trendVars, academicVars>>

\* the fallback task, and the return
ValidateReturn ==
    /\ pc = "after_loop"
    /\ validated_tasks' = AfterLoop(validated_tasks, context)
    /\ pc' = "done"
    /\ UNCHANGED <<context, tasks, total_duration, task_index,
                   appVars, analyzeVars, classifyVars, generateVars,
                   trendVars, academicVars>>

NextValidate == ValidateTask \/ ValidateExhausted \/ ValidateReturn

SpecValidate == InitValidate /\ [][NextValidate]_vars

----------------------------------------------------------------------------
(* generate_daily_curriculum, one step per break.  The chat call of a      *)
(* break raises or replies with up to MaxSections sections of SectionPool. *)

MaxSections == 3

SectionPool ==
    { BlankSection,
      [title |-> "Formula drill", duration |-> 3, subject |-> "Physics"],
      [subject |-> "Mathematics"],          \* no Duration: line
      [duration |-> 3, subject |-> ""],     \* nothing after "Subject:"
      [duration |-> 20] }                   \* no Subject: line

LlmOutcomes ==
    {[raises |-> TRUE]}
        \cup {[raises |-> FALSE, sections |-> r] :
                 r \in UNION {[1..k -> SectionPool] : k \in 0..MaxSections}}

\* generate_daily_curriculum up to its loop
GenStart ==
    /\ pc = "generate"
    /\ LET resolved == ResolveTimetable(call.student, call.timetable_dict,
                                        section_timetables)
       IN  IF resolved = None
           THEN /\ daily_curriculum' = Raised("No timetable found for student's section")
                /\ break_periods' = <<>>
                /\ pc' = "returned"
           ELSE IF ScheduleRaises(resolved)
           THEN /\ daily_curriculum' = analyze_daily_schedule(resolved)
                /\ break_periods' = <<>>
                /\ pc' = "returned"
           ELSE /\ daily_curriculum' = DailyCurriculum(call.student.student_id, call.date)
                /\ break_periods' = analyze_daily_schedule(resolved)
                /\ pc' = "break_loop"
    /\ llm_log' = <<>>
    /\ UNCHANGED <<call, appVars, analyzeVars, classifyVars, validateVars,
                   trendVars, academicVars>>

\* one pass of the loop over break_periods
GenBreak ==
    /\ pc = "break_loop"
    /\ break_periods # <<>>
    /\ \E outcome \in LlmOutcomes :
          LET result == BreakBody(daily_curriculum, Head(break_periods),
                                  call.student, outcome)
          IN  /\ daily_curriculum' = result
              /\ llm_log' = Append(llm_log, outcome.raises)
              /\ pc' = IF HasRaised(result) THEN "returned" ELSE "break_loop"
    /\ break_periods' = Tail(break_periods)
    /\ UNCHANGED <<call, appVars, analyzeVars, classifyVars, validateVars,
                   trendVars, academicVars>>

\* return daily_curriculum
GenReturn ==
    /\ pc = "break_loop"
    /\ break_periods = <<>>
    /\ pc' = "returned"
    /\ UNCHANGED <<generateVars, appVars, analyzeVars, classifyVars, validateVars,
                   trendVars, academicVars>>

----------------------------------------------------------------------------
(* generate_daily_curriculum called with every student of StudentPool and  *)
(* every timetable of GenTimetables                                        *)

StudentProfile(student_id, semester, section, interests, performance) ==
    [student_id |-> student_id,
     semester |-> semester,
     section |-> section,
     interests |-> interests,
     academic_performance |-> performance]

Scores(subject, scores) == [subject |-> subject, scores |-> scores]

PerformancePool ==
    { <<>>,
      <<Scores("Physics", <<40>>)>>,
      <<Scores("Mathematics", <<50, 55>>), Scores("Physics", <<40>>)>>,
      <<Scores("Physics", <<40, 90>>), Scores("Chemistry", <<90>>)>> }

StudentPool ==
    { StudentProfile("S1", "1", "A", interests, performance) :
        interests \in {<<>>, <<"space science">>},
        performance \in PerformancePool }

Mathematics9 == Class("Mathematics", T(9, 0), T(10, 0))
Physics1015 == Class("Physics", T(10, 15), T(11, 15))
Chemistry1005 == Class("Chemistry", T(10, 5), T(10, 10))

GenSchedules ==
    { <<>>,
      <<Mathematics9>>,
      <<Mathematics9, Physics1015>>,
      <<Physics1015, Chemistry1005, Mathematics9>>,
      <<Mathematics9, Class("Physics", T(10, 7), T(11, 0))>>,
      <<Mathematics9, Class("Physics", T(10, 8), T(11, 0))>>,
      <<Class("Physics", T(9, 0), T(9, 30)), Physics1015>>,
      <<Mathematics9, Class("Mathematics", T(10, 30), T(11, 0)),
        Class("English", T12(2, 0, "PM"), T12(3, 0, "PM"))>> }

GenTimetables == {None} \cup {[schedule |-> s] : s \in GenSchedules}

SectionTimetable(semester, section, schedule) ==
    [semester |-> semester, section |-> section, schedule |-> schedule]

InitGenerate ==
    /\ call \in {[student |-> student, timetable_dict |-> td,
                  date |-> "2025-09-04", caller |-> "direct"] :
                    student \in StudentPool, td \in GenTimetables}
    /\ section_timetables \in
          { <<>>,
            <<"1", "A">> :> SectionTimetable("1", "A", <<Mathematics9, Physics1015>>) }
    /\ students_db = <<>>
    /\ timetables_db = <<>>
    /\ response = None
    /\ break_periods = <<>>
    /\ daily_curriculum = None
    /\ llm_log = <<>>
    /\ pc = "generate"
    /\ IdleAnalyze /\ IdleClassify /\ IdleValidate /\ IdleTrend /\ IdleAcademic

\* daily_curriculum.to_dict() on the curriculum returned
GenToDict ==
    /\ pc = "returned"
    /\ call.caller = "direct"
    /\ ~HasRaised(daily_curriculum)
    /\ \E order \in Orderings(daily_curriculum.subjects_covered) :
          response' = to_dict(daily_curriculum, order)
    /\ pc' = "serialized"
    /\ UNCHANGED <<students_db, timetables_db, section_timetables, generateVars,
                   analyzeVars, classifyVars, validateVars,
                   trendVars, academicVars>>

NextGenerate == GenStart \/ GenBreak \/ GenReturn \/ GenToDict

SpecGenerate == InitGenerate /\ [][NextGenerate]_vars

----------------------------------------------------------------------------
(* analyze_student_performance applied to every student of at most         *)
(* MaxSubjects subjects of SubjectPool, each with a history of HistoryPool *)

MaxSubjects == 3

SubjectPool == {"Mathematics", "Physics", "Chemistry", "History"}

\* averages 25, 50, 50, 60, 65, 80 and 90; two of them declining
HistoryPool ==
    { <<30, 20>>, <<55, 45>>, <<50, 50>>, <<60>>, <<65>>, <<80>>, <<95, 85>> }

\* academic_performance after update_performance calls: distinct subjects
PerformanceDicts ==
    { p \in UNION {[1..n -> [subject : SubjectPool, scores : HistoryPool]] :
                      n \in 0..MaxSubjects} :
        \A i, j \in 1..Len(p) : p[i].subject = p[j].subject => i = j }

InterestPool == { <<>>, <<"space science">>, <<"space science", "robotics">> }

InitAcademic ==
    /\ student_profile \in
          { StudentProfile("S1", "1", "A", interests, performance) :
              interests \in InterestPool, performance \in PerformanceDicts }
    /\ analysis = None
    /\ pc = "analyze_student"
    /\ IdleApp /\ IdleAnalyze /\ IdleClassify /\ IdleValidate /\ IdleGenerate
    /\ IdleTrend

AnalyzePerformance ==
    /\ pc = "analyze_student"
    /\ analysis' = analyze_student_performance(student_profile)
    /\ pc' = "done"
    /\ UNCHANGED <<student_profile, appVars, analyzeVars, classifyVars,
                   validateVars, generateVars, trendVars>>

NextAcademic == AnalyzePerformance

SpecAcademic == InitAcademic /\ [][NextAcademic]_vars

----------------------------------------------------------------------------
(* app.py: the request handlers over the three stores.  A request is       *)
(* handled to its end before the next one starts.                          *)

StudentIds == {"S1", "S2"}
Dates == {"2025-09-04"}
Sections == {"A", "B"}

MaxRecords == 2      \* score records of one student

Reply(endpoint, status, error) ==
    [endpoint |-> endpoint, status |-> status, error |-> error]

\* a response, with the request body it answers
ReplyTo(data, endpoint, status, error) ==
    [endpoint |-> endpoint, status |-> status, error |-> error, request |-> data]

\* the request bodies of /api/register-student: with and without 'name'
RegisterRequests ==
    {[student_id |-> id, name |-> "Alice", semester |-> "1", section |-> section] :
        id \in StudentIds, section \in Sections}
    \cup {[student_id |-> id, section |-> "A"] : id \in StudentIds}

register_student ==
    /\ pc = "idle"
    /\ \E data \in RegisterRequests :
          IF {"student_id", "name"} \subseteq DOMAIN data
          THEN /\ students_db' =
                      Put(students_db, data.student_id,
                          StudentProfile(data.student_id,
                                         Get(data, "semester", ""),
                                         Get(data, "section", ""),
                                         Get(data, "interests", <<>>),
                                         <<>>))
               /\ response' = Reply("register-student", 200, "")
          ELSE /\ response' = Reply("register-student", 400, "KeyError")
               /\ UNCHANGED students_db
    /\ UNCHANGED <<timetables_db, section_timetables, pc,
                   analyzeVars, classifyVars, validateVars, generateVars,
                   trendVars, academicVars>>

\* StudentProfile.update_performance
update_performance_of(student, subject, score) ==
    LET performance == student.academic_performance
        known == \E k \in 1..Len(performance) : performance[k].subject = subject
        with_subject == IF known THEN performance
                        ELSE Append(performance, Scores(subject, <<>>))
    IN  [student EXCEPT !.academic_performance =
            [k \in 1..Len(with_subject) |->
                IF with_subject[k].subject = subject
                THEN Scores(subject, Append(with_subject[k].scores, score))
                ELSE with_subject[k]]]

ApplyRecords_atomic(student, records) ==
    IF \E k \in 1..Len(records) : ~({"subject", "score"} \subseteq DOMAIN records[k])
    THEN [student |-> student, failed |-> TRUE]
    ELSE [student |->
             [student EXCEPT !.academic_performance =
                 IF @ = <<>>
                 THEN <<Scores(records[1].subject,
                               [k \in 1..Len(records) |-> records[k].score])>>
                 ELSE [j \in 1..Len(@) |->
                          Scores(@[j].subject,
                                 @[j].scores \o [k \in 1..Len(records) |-> records[k].score])]],
          failed |-> FALSE]

RECURSIVE ApplyRecords(_, _)
\* the loop over data['performance']: it stops at the first record without
\* 'subject' or 'score'
ApplyRecords(student, records) ==
    IF records = <<>> THEN [student |-> student, failed |-> FALSE]
    ELSE IF ~({"subject", "score"} \subseteq DOMAIN Head(records))
    THEN [student |-> student, failed |-> TRUE]
    ELSE ApplyRecords(update_performance_of(student, Head(records).subject,
                                            Head(records).score),
                      Tail(records))

\* the records of the request bodies of /api/update-performance: one of
\* them lacks 'score', one 'subject'
RecordPool ==
    { [subject |-> "Physics", score |-> 40],
      [subject |-> "Physics"],
      [score |-> 40] }

CountRecords(student) ==
    Sum([k \in 1..Len(student.academic_performance) |->
            Len(student.academic_performance[k].scores)])

\* the request bodies of /api/update-performance: one lacks 'student_id'
PerformanceRequests ==
    {[student_id |-> id, performance |-> records] :
        id \in StudentIds,
        records \in UNION {[1..k -> RecordPool] : k \in 1..MaxRecords}}
    \cup {[performance |-> <<[subject |-> "Physics", score |-> 40]>>]}

update_performance ==
    /\ pc = "idle"
    /\ \E data \in PerformanceRequests :
          IF "student_id" \notin DOMAIN data
          THEN /\ response' = ReplyTo(data, "update-performance", 400, "KeyError")
               /\ UNCHANGED students_db
          ELSE IF data.student_id \notin DOMAIN students_db
          THEN /\ response' = ReplyTo(data, "update-performance", 404, "Student not found")
               /\ UNCHANGED students_db
          ELSE /\ CountRecords(students_db[data.student_id]) + Len(data.performance)
                     <= MaxRecords
               /\ LET applied == ApplyRecords(students_db[data.student_id],
                                              data.performance)
                  IN  /\ students_db' = Put(students_db, data.student_id, applied.student)
                      /\ response' =
                            IF applied.failed
                            THEN ReplyTo(data, "update-performance", 400, "KeyError")
                            ELSE ReplyTo(data, "update-performance", 200, "")
    /\ UNCHANGED <<timetables_db, section_timetables, pc,
                   analyzeVars, classifyVars, validateVars, generateVars,
                   trendVars, academicVars>>

add_class_append(schedule, class_info) == Append(schedule, class_info)

\* Timetable.add_class: a class of the same time range is replaced in place
add_class(schedule, class_info) ==
    IF \E k \in 1..Len(schedule) : time_slot(schedule[k]) = time_slot(class_info)
    THEN [k \in 1..Len(schedule) |->
             IF time_slot(schedule[k]) = time_slot(class_info) THEN class_info
             ELSE schedule[k]]
    ELSE Append(schedule, class_info)

RECURSIVE AddClasses(_, _)
\* the loop over data['classes']: it raises at the first class without
\* 'start_time', 'end_time' or 'subject'
AddClasses(schedule, classes) ==
    IF classes = <<>> THEN [schedule |-> schedule, failed |-> FALSE]
    ELSE IF ~({"start_time", "end_time", "subject"} \subseteq DOMAIN Head(classes))
    THEN [schedule |-> schedule, failed |-> TRUE]
    ELSE AddClasses(add_class(schedule, Head(classes)), Tail(classes))

Chemistry1007 == Class("Chemistry", T(10, 7), T(10, 30))

\* the 'classes' of the request bodies of /api/set-timetable
ClassLists ==
    { <<Mathematics9, Chemistry1005>>,
      <<Mathematics9, Chemistry1007, Class("Biology", T(10, 7), T(10, 30))>>,
      <<Mathematics9, [subject |-> "Physics", start_time |-> T(10, 15)]>> }

\* the request bodies of /api/set-timetable: one lacks 'student_id', one
\* 'classes'
TimetableRequests ==
    {[student_id |-> id, date |-> date, classes |-> classes] :
        id \in StudentIds, date \in Dates, classes \in ClassLists}
    \cup {[date |-> date, classes |-> <<Mathematics9>>] : date \in Dates}
    \cup {[student_id |-> "S1", date |-> date] : date \in Dates}

set_timetable ==
    /\ pc = "idle"
    /\ \E data \in TimetableRequests :
          IF ~({"student_id", "classes"} \subseteq DOMAIN data)
          THEN /\ response' = ReplyTo(data, "set-timetable", 400, "KeyError")
               /\ UNCHANGED timetables_db
          ELSE LET added == AddClasses(<<>>, data.classes)
               IN  IF added.failed
                   THEN /\ response' = ReplyTo(data, "set-timetable", 400, "KeyError")
                        /\ UNCHANGED timetables_db
                   ELSE /\ timetables_db' =
                               Put(timetables_db, <<data.student_id, data.date>>,
                                   [student_id |-> data.student_id, date |-> data.date,
                                    schedule |-> added.schedule])
                        /\ response' = ReplyTo(data, "set-timetable", 200, "")
    /\ UNCHANGED <<students_db, section_timetables, pc,
                   analyzeVars, classifyVars, validateVars, generateVars,
                   trendVars, academicVars>>

\* the request bodies of /api/set-section-timetable
SectionRequests ==
    {SectionTimetable("1", "A", <<Mathematics9, Physics1015>>),
     SectionTimetable("1", "B", <<Mathematics9,
                                  Class("Physics", T(10, 5), T(11, 0)),
                                  Class("Chemistry", T(11, 5), T(12, 0))>>)}
    \cup {[semester |-> "1", section |-> "A"], [semester |-> "1"]}

set_section_timetable ==
    /\ pc = "idle"
    /\ \E data \in SectionRequests :
          IF Get(data, "semester", "") = "" \/ Get(data, "section", "") = ""
          THEN /\ response' = Reply("set-section-timetable", 400,
                                    "Missing semester or section")
               /\ UNCHANGED section_timetables
          ELSE /\ section_timetables' =
                      Put(section_timetables, <<data.semester, data.section>>, data)
               /\ response' = Reply("set-section-timetable", 200, "")
    /\ UNCHANGED <<students_db, timetables_db, pc,
                   analyzeVars, classifyVars, validateVars, generateVars,
                   trendVars, academicVars>>

\* the request bodies of /api/generate-curriculum
GenerateRequests ==
    {[student_id |-> id, date |-> date] : id \in StudentIds, date \in Dates}
    \cup {[date |-> date] : date \in Dates}

\* a response of /api/generate-curriculum, with the request it answers
GenerateReply(data, status, error) ==
    [endpoint |-> "generate-curriculum", status |-> status, error |-> error,
     request |-> data]

\* generate_curriculum up to its call of generate_daily_curriculum, which is
\* given timetable_dict=None
generate_curriculum ==
    /\ pc = "idle"
    /\ \E data \in GenerateRequests :
          IF "student_id" \notin DOMAIN data
          THEN /\ response' = GenerateReply(data, 500, "KeyError")
               /\ UNCHANGED <<pc, call>>
          ELSE IF data.student_id \notin DOMAIN students_db
          THEN /\ response' = GenerateReply(data, 404, "Student not found")
               /\ UNCHANGED <<pc, call>>
          ELSE IF <<data.student_id, data.date>> \notin DOMAIN timetables_db
          THEN /\ response' = GenerateReply(data, 404, "Timetable not found")
               /\ UNCHANGED <<pc, call>>
          ELSE /\ call' = [student |-> students_db[data.student_id],
                           timetable_dict |-> None,
                           date |-> data.date,
                           caller |-> "app"]
               /\ pc' = "generate"
               /\ response' = None
    /\ UNCHANGED <<students_db, timetables_db, section_timetables,
                   break_periods, daily_curriculum, llm_log,
                   analyzeVars, classifyVars, validateVars,
                   trendVars, academicVars>>

\* generate_curriculum after the call: the curriculum, or the except clause
generate_curriculum_respond ==
    /\ pc = "returned"
    /\ call.caller = "app"
    /\ LET data == [student_id |-> call.student.student_id, date |-> call.date]
       IN  IF HasRaised(daily_curriculum)
           THEN response' = GenerateReply(data, 500, daily_curriculum.exception)
           ELSE \E order \in Orderings(daily_curriculum.subjects_covered) :
                   response' = Put(GenerateReply(data, 200, ""), "curriculum",
                                   to_dict(daily_curriculum, order))
    /\ pc' = "idle"
    /\ call' = None
    /\ break_periods' = <<>>
    /\ daily_curriculum' = None
    /\ llm_log' = <<>>
    /\ UNCHANGED <<students_db, timetables_db, section_timetables,
                   analyzeVars, classifyVars, validateVars,
                   trendVars, academicVars>>

Init ==
    /\ students_db = <<>>
    /\ timetables_db = <<>>
    /\ section_timetables = <<>>
    /\ response = None
    /\ pc = "idle"
    /\ IdleAnalyze /\ IdleClassify /\ IdleValidate /\ IdleGenerate /\ IdleTrend /\ IdleAcademic

Next ==
    \/ register_student
    \/ update_performance
    \/ set_timetable
    \/ set_section_timetable
    \/ generate_curriculum
    \/ GenStart
    \/ GenBreak
    \/ GenReturn
    \/ generate_curriculum_respond

Spec == Init /\ [][Next]_vars

----------------------------------------------------------------------------
(* Properties of analyze_daily_schedule, checked under SpecAnalyze *)

Analyzed == pc = "done" /\ timetable_dict # None /\ "schedule" \in DOMAIN timetable_dict

Classes == timetable_dict.schedule

TimeParses(t) == Parses12(t) \/ Parses24(t)

\* minutes after midnight of a time string that parses
Minutes(t) ==
    IF t.ap = "" THEN t.h * 60 + t.m
    ELSE ((t.h % 12) + (IF t.ap = "PM" THEN 12 ELSE 0)) * 60 + t.m

AllTimesParse ==
    \A k \in 1..Len(Classes) :
        TimeParses(Classes[k].start_time) /\ TimeParses(Classes[k].end_time)

\* every time parses and no class ends before it starts
ValidSchedule ==
    /\ AllTimesParse
    /\ \A k \in 1..Len(Classes) :
           Minutes(Classes[k].start_time) <= Minutes(Classes[k].end_time)

\* the place of class k when the classes are put in start-time order, classes
\* with the same start keeping their input order
Place(k) ==
    1 + Cardinality({j \in 1..Len(Classes) :
            \/ Minutes(Classes[j].start_time) < Minutes(Classes[k].start_time)
            \/ /\ Minutes(Classes[j].start_time) = Minutes(Classes[k].start_time)
               /\ j < k})

ClassAt(r) == Classes[CHOOSE k \in 1..Len(Classes) : Place(k) = r]

\* the gap between the classes at places r and r + 1
Gap(r) == Minutes(ClassAt(r + 1).start_time) - Minutes(ClassAt(r).end_time)

\* C3: for a schedule of at least 2 classes whose times parse and whose classes
\* do not end before they start, the number of windows emitted is the number of
\* adjacent pairs, in start-time order, whose gap is at least 5 minutes.
C3_WindowCount ==
    (Analyzed /\ ValidSchedule /\ Len(Classes) >= 2) =>
        Len(breaks) = Cardinality({r \in 1..(Len(Classes) - 1) : Gap(r) >= 5})

\* a schedule with a gap of exactly 5 minutes that gave a window, and a pair
\* that gave none
C3_Witness ==
    /\ Analyzed /\ ValidSchedule /\ Len(Classes) = 3
    /\ Len(breaks) = 1
    /\ \E r \in 1..2 : Gap(r) = 5
    /\ \E r \in 1..2 : Gap(r) < 0

\* C4: for a valid schedule, given in any order, the windows come in
\* non-decreasing order of their start time.
C4_WindowsOrdered ==
    (Analyzed /\ ValidSchedule) =>
        \A a, b \in 1..Len(breaks) :
            a < b => Minutes(breaks[a].start_time) <= Minutes(breaks[b].start_time)

\* two windows from a schedule given out of start-time order
C4_Witness ==
    /\ Analyzed /\ ValidSchedule
    /\ Len(breaks) = 2
    /\ Minutes(Classes[1].start_time) > Minutes(Classes[2].start_time)

\* window w lies between the classes at places r and r + 1
WindowBetween(w, r) ==
    /\ w.start_time = _time_to_string(Minutes(ClassAt(r).end_time))
    /\ w.end_time = _time_to_string(Minutes(ClassAt(r + 1).start_time))
    /\ w.previous_class = ClassAt(r)
    /\ w.next_class = ClassAt(r + 1)

WindowsWellFormed ==
    \A a \in 1..Len(breaks) :
        /\ \E r \in 1..(Len(Classes) - 1) : WindowBetween(breaks[a], r)
        /\ breaks[a].duration_minutes =
               Minutes(breaks[a].end_time) - Minutes(breaks[a].start_time)
        /\ breaks[a].duration_minutes > 0

----------------------------------------------------------------------------
(* Properties of _classify_break_type, checked under SpecClassify *)

\* the boundary table
BreakTypeTable(d) ==
    CASE d <= 15 -> "short"
      [] d \in 16..45 -> "medium"
      [] d \in 46..59 -> "long"
      [] d \in 60..120 -> "lunch"
      [] d > 120 -> "long"

\* C6: the break type is the one the boundary table gives for the duration:
\* up to 15 short, 16 to 45 medium, 46 to 59 long, 60 to 120 lunch, above 120
\* long.
C6_BreakTypeTable ==
    pc = "done" => break_type = BreakTypeTable(duration_minutes)

\* a duration of the 46..59 band classified long
C6_Witness ==
    pc = "done" /\ duration_minutes \in 46..59 /\ break_type = "long"

----------------------------------------------------------------------------
(* Properties of _validate_and_enhance_tasks, checked under SpecValidate *)

\* the duration a task has in the curriculum (_create_micro_task)
Minutes_of(task) == Get(task, "duration_minutes", 10)

RECURSIVE SumMinutes(_)
SumMinutes(task_list) ==
    IF task_list = <<>> THEN 0
    ELSE Minutes_of(Head(task_list)) + SumMinutes(Tail(task_list))

\* C1: at every point of the validation at most 2 tasks are accepted and the
\* running total of the accepted durations is at most break.duration - 2; the
\* durations of the tasks returned for the break sum to at most
\* break.duration - 2.
C1_TimeBudget ==
    pc \in {"for_loop", "after_loop", "done"} =>
        /\ Len(validated_tasks) <= 2
        /\ total_duration <= context.duration_minutes - 2
        /\ SumMinutes(validated_tasks) <= context.duration_minutes - 2

\* two tasks accepted out of three candidates, the budget used up exactly
C1_Witness ==
    /\ pc = "done"
    /\ Len(tasks) = 3
    /\ Len(validated_tasks) = 2
    /\ total_duration = context.duration_minutes - 2
    /\ total_duration > 0

IsFallbackTask(task) == task.title[1] = "Quick {} Review"

\* a candidate is accepted: the first one that fits the budget is
SomeCandidateFits ==
    \E k \in 1..Len(tasks) : Minutes_of(tasks[k]) <= context.duration_minutes - 2

\* C7: when no candidate is accepted and break.duration - 2 > 5 the break gets
\* exactly one synthesized review task, of duration break.duration - 2 and on
\* the first weak subject, or 'general' without a weak subject; when a
\* candidate is accepted no task is synthesized.
C7_Fallback ==
    pc = "done" =>
        /\ (~SomeCandidateFits /\ context.duration_minutes - 2 > 5) =>
              /\ Len(validated_tasks) = 1
              /\ IsFallbackTask(validated_tasks[1])
              /\ validated_tasks[1].duration_minutes = context.duration_minutes - 2
              /\ validated_tasks[1].subject =
                     (IF context.weak_subjects = <<>> THEN "general"
                      ELSE Head(context.weak_subjects))
        /\ SomeCandidateFits =>
              /\ validated_tasks # <<>>
              /\ \A k \in 1..Len(validated_tasks) : ~IsFallbackTask(validated_tasks[k])

\* candidates that are all too long, two weak subjects: the fallback task is
\* on the first
C7_Witness ==
    /\ pc = "done"
    /\ tasks # <<>>
    /\ ~SomeCandidateFits
    /\ Len(context.weak_subjects) = 2
    /\ Len(validated_tasks) = 1
    /\ IsFallbackTask(validated_tasks[1])
    /\ validated_tasks[1].subject = "Mathematics"

----------------------------------------------------------------------------
(* Properties of generate_daily_curriculum, checked under SpecGenerate *)

\* the curriculum is under construction or returned
HasCurriculum ==
    pc \in {"break_loop", "returned"} /\ ~HasRaised(daily_curriculum)

Assembled == daily_curriculum.break_periods

\* C8: when the chat call of a break raises, a break of at least 8 minutes
\* carries exactly one task, of at most break.duration - 2 minutes; the break
\* between Mathematics 09:00-10:00 and Physics 10:15-11:15 is 15 minutes
\* long and 'short', and carries one task of at most 13 minutes.
C8_GeneratorUnavailable ==
    HasCurriculum =>
        \A k \in 1..Len(Assembled) :
            llm_log[k] =>
                /\ Assembled[k].duration_minutes >= 8 =>
                      /\ Len(Assembled[k].assigned_tasks) = 1
                      /\ Assembled[k].assigned_tasks[1].duration_minutes
                             <= Assembled[k].duration_minutes - 2
                /\ (/\ Assembled[k].previous_class = Mathematics9
                    /\ Assembled[k].next_class = Physics1015) =>
                      /\ Assembled[k].start_time = T(10, 0)
                      /\ Assembled[k].end_time = T(10, 15)
                      /\ Assembled[k].duration_minutes = 15
                      /\ Assembled[k].break_type = "short"
                      /\ Len(Assembled[k].assigned_tasks) = 1
                      /\ Assembled[k].assigned_tasks[1].duration_minutes <= 13

\* the 15-minute break of a student without weak subject, the chat call
\* raising: one synthesized task of 13 minutes
C8_Witness ==
    /\ pc = "returned" /\ ~HasRaised(daily_curriculum)
    /\ call.timetable_dict # None
    /\ call.timetable_dict.schedule = <<Mathematics9, Physics1015>>
    /\ llm_log = <<TRUE>>
    /\ Len(Assembled) = 1
    /\ Assembled[1].duration_minutes = 15
    /\ Len(Assembled[1].assigned_tasks) = 1
    /\ Assembled[1].assigned_tasks[1].duration_minutes = 13

\* the break windows of a curriculum, as the analyzer returned them
RECURSIVE WithoutTasks(_)
WithoutTasks(periods) ==
    IF periods = <<>> THEN <<>>
    ELSE <<[Head(periods) EXCEPT !.assigned_tasks = <<>>]>> \o WithoutTasks(Tail(periods))

\* the timetable the call resolved
Resolved == ResolveTimetable(call.student, call.timetable_dict, section_timetables)

\* C10: once the schedule is resolved, whatever the chat call of each break
\* does (raise or reply), the call does not fail, and it returns a curriculum
\* that holds every break of the Schedule Analyzer, in its order.
C10_GeneratorAbsorbed ==
    /\ (pc = "break_loop" /\ Resolved # None) => ~HasRaised(daily_curriculum)
    /\ (pc = "returned" /\ Resolved # None) =>
          /\ ~HasRaised(daily_curriculum)
          /\ WithoutTasks(Assembled) = analyze_daily_schedule(Resolved)

\* a curriculum of two breaks returned although the chat call of one of them
\* raised
C10_Witness ==
    /\ pc = "returned" /\ ~HasRaised(daily_curriculum)
    /\ Len(Assembled) = 2
    /\ \E k \in 1..2 : llm_log[k]
    /\ \E k \in 1..2 : ~llm_log[k]

----------------------------------------------------------------------------
(* Properties of the request handlers, checked under Spec *)

Answered == response # None /\ response.endpoint = "generate-curriculum"
                            /\ "student_id" \in DOMAIN response.request

Asked == response.request

Registered == Asked.student_id \in DOMAIN students_db

HasStudentTimetable == <<Asked.student_id, Asked.date>> \in DOMAIN timetables_db

HasSectionTimetable ==
    SectionKey(students_db[Asked.student_id]) \in DOMAIN section_timetables

Succeeded == response.status = 200 /\ "curriculum" \in DOMAIN response

BreaksComeFrom(timetable) ==
    /\ Succeeded
    /\ WithoutTasks(response.curriculum.break_periods) = analyze_daily_schedule(timetable)

\* C2: the answer to a generation request of a registered student uses the
\* timetable stored for (student, date) when there is one, the timetable of
\* the student's (semester, section) only when there is none, and is the
\* not-found answer only when there is neither.
C2_ScheduleResolution ==
    (Answered /\ Registered) =>
        /\ HasStudentTimetable =>
              BreaksComeFrom(timetables_db[<<Asked.student_id, Asked.date>>])
        /\ (~HasStudentTimetable /\ HasSectionTimetable) =>
              BreaksComeFrom(section_timetables[SectionKey(students_db[Asked.student_id])])
        /\ (~HasStudentTimetable /\ ~HasSectionTimetable) =>
              (response.status = 404 /\ response.error = "Timetable not found")

----------------------------------------------------------------------------
(* Properties of _calculate_trend, checked under SpecTrend *)

\* the k-th of the scores the trend is computed from: the last 5 at most
Used(k) ==
    LET n == Len(performance_history)
    IN  performance_history[IF n > 5 THEN n - 5 + k ELSE k]

UsedCount == IF Len(performance_history) > 5 THEN 5 ELSE Len(performance_history)

RECURSIVE UsedSum(_, _)
\* Used(from) + ... + Used(to)
UsedSum(from, to) == IF from > to THEN 0 ELSE Used(from) + UsedSum(from + 1, to)

\* the size of the first half: floor(n / 2)
FirstCount == UsedCount \div 2

\* (mean of the second half - mean of the first half) - bound, times the
\* sizes of both halves
MeanDiffMinus(bound) ==
    UsedSum(FirstCount + 1, UsedCount) * FirstCount
        - UsedSum(1, FirstCount) * (UsedCount - FirstCount)
        - bound * FirstCount * (UsedCount - FirstCount)

\* C11: fewer than 2 records give insufficient_data; otherwise the last (up
\* to) 5 scores are split into the first floor(n/2) and the rest, and the
\* trend is improving if mean(second) - mean(first) > 5, declining if it is
\* < -5, else stable; [50, 50, 50, 50, 90] is improving.
C11_Trend ==
    pc = "done" =>
        /\ Len(performance_history) < 2 => trend = "insufficient_data"
        /\ Len(performance_history) >= 2 =>
              /\ trend = "improving" <=> MeanDiffMinus(5) > 0
              /\ trend = "declining" <=> MeanDiffMinus(-5) < 0
              /\ trend = "stable" <=> (MeanDiffMinus(5) <= 0 /\ MeanDiffMinus(-5) >= 0)
        /\ performance_history = <<50, 50, 50, 50, 90>> => trend = "improving"

\* six scores of which the oldest is dropped, the middle one of the five
\* used counted with the second half, and a difference of exactly 5
C11_Witness ==
    /\ pc = "done"
    /\ performance_history = <<90, 45, 45, 50, 50, 50>>
    /\ trend = "stable"

----------------------------------------------------------------------------
(* Properties of analyze_student_performance, checked under SpecAcademic *)

PerformanceAnalysed == pc = "done" /\ analysis # None

Performance == student_profile.academic_performance

\* the subjects named by a list of entries
SubjectSet(entries) == {entries[k].subject : k \in 1..Len(entries)}

\* the number of entries of a list that name the subject
Mentions(entries, subject) ==
    Cardinality({k \in 1..Len(entries) : entries[k].subject = subject})

\* average < bound and average >= bound of the scores of an entry
AvgLess(entry, bound) == Sum(entry.scores) < bound * Len(entry.scores)

AvgAtLeast(entry, bound) == Sum(entry.scores) >= bound * Len(entry.scores)

SubjectIndex(subject) ==
    CHOOSE k \in 1..Len(Performance) : Performance[k].subject = subject

\* C13: every improvement area's priority is an integer in [0, 10], and
\* improvement_areas is sorted non-increasing by priority, areas of equal
\* priority in the order of the subjects in the performance record.
C13_PrioritySorted ==
    PerformanceAnalysed =>
        LET areas == analysis.improvement_areas
        IN  /\ \A k \in 1..Len(areas) : areas[k].priority \in 0..10
            /\ \A i, j \in 1..Len(areas) :
                  i < j =>
                      /\ areas[i].priority >= areas[j].priority
                      /\ areas[i].priority = areas[j].priority =>
                            SubjectIndex(areas[i].subject) < SubjectIndex(areas[j].subject)

\* two areas of priority 5 in record order behind a later subject of
\* priority 8
C13_Witness ==
    /\ PerformanceAnalysed
    /\ Performance = <<Scores("Mathematics", <<50, 50>>), Scores("Physics", <<50, 50>>),
                       Scores("Chemistry", <<30, 20>>)>>
    /\ analysis.improvement_areas =
          <<[subject |-> "Chemistry", priority |-> 8],
            [subject |-> "Mathematics", priority |-> 5],
            [subject |-> "Physics", priority |-> 5]>>

\* the trend of an entry is declining
Declining(entry) == _calculate_trend(entry.scores) = "declining"

\* C14: improvement_areas has exactly one entry for every subject that is
\* weak (average < 60) or declining and none for any other subject; every
\* weak subject appears, a strong subject only if it is declining.
C14_ImprovementAreas ==
    PerformanceAnalysed =>
        /\ \A k \in 1..Len(Performance) :
              Mentions(analysis.improvement_areas, Performance[k].subject)
                  = IF AvgLess(Performance[k], 60) \/ Declining(Performance[k])
                    THEN 1 ELSE 0
        /\ SubjectSet(analysis.improvement_areas) \subseteq SubjectSet(Performance)
        /\ SubjectSet(analysis.weak_subjects) \subseteq SubjectSet(analysis.improvement_areas)
        /\ \A k \in 1..Len(Performance) :
              (/\ Performance[k].subject \in SubjectSet(analysis.strong_subjects)
               /\ Performance[k].subject \in SubjectSet(analysis.improvement_areas))
                  => Declining(Performance[k])

\* a strong declining subject listed, a strong steady one not, a weak one
\* listed
C14_Witness ==
    /\ PerformanceAnalysed
    /\ Performance = <<Scores("Mathematics", <<95, 85>>), Scores("Physics", <<80>>),
                       Scores("Chemistry", <<50, 50>>)>>
    /\ SubjectSet(analysis.strong_subjects) = {"Mathematics", "Physics"}
    /\ SubjectSet(analysis.improvement_areas) = {"Mathematics", "Chemistry"}

\* the pairs of lowercased subjects the skill-connection table has
ConnectedPairs ==
    { {"mathematics", "physics"}, {"physics", "chemistry"},
      {"chemistry", "biology"}, {"english", "history"} }

\* |average of a - average of b| > 20
AveragesApart(a, b) ==
    LET d == Sum(a.scores) * Len(b.scores) - Sum(b.scores) * Len(a.scores)
    IN  (IF d < 0 THEN -d ELSE d) > 20 * Len(a.scores) * Len(b.scores)

\* the average of a is below that of b
LowerAverage(a, b) == Sum(a.scores) * Len(b.scores) < Sum(b.scores) * Len(a.scores)

\* the gap records of two subjects
GapsOf(a, b) ==
    {k \in 1..Len(analysis.learning_gaps) :
        {analysis.learning_gaps[k].weaker_subject,
         analysis.learning_gaps[k].stronger_subject} = {a.subject, b.subject}}

InterestLinkage ==
    {k \in 1..Len(analysis.recommendations) :
        analysis.recommendations[k][1] = "Connect your interest in"}

\* C16: the recommendations are one line per weak subject, then one line per
\* declining subject, then at most one interest-linkage line, present only if
\* a weak subject exists, cut to the first 5 lines: never more than 5 lines
\* and never more than one interest-linkage line.
C16_Recommendations ==
    PerformanceAnalysed =>
        LET weak == analysis.weak_subjects
            declining == SelectSeq(Performance, Declining)
            interests == student_profile.interests
            lines == [k \in 1..Len(weak) |-> <<"Focus on", weak[k].subject>>]
                     \o [k \in 1..Len(declining) |->
                            <<"Address declining", declining[k].subject>>]
                     \o (IF weak # <<>> /\ interests # <<>>
                         THEN <<<<"Connect your interest in", interests[1], weak[1].subject>>>>
                         ELSE <<>>)
        IN  /\ analysis.recommendations
                  = SubSeq(lines, 1, IF Len(lines) > 5 THEN 5 ELSE Len(lines))
            /\ Len(analysis.recommendations) <= 5
            /\ Cardinality(InterestLinkage) <= 1

----------------------------------------------------------------------------
(* Properties of the enrichment of tasks, checked under SpecValidate *)

\* C17: every task of a break, accepted candidate or synthesized fallback
\* task, has gamification.streak_bonus true exactly when the break is longer
\* than 20 minutes.
C17_StreakBonus ==
    pc = "done" =>
        \A k \in 1..Len(validated_tasks) :
            validated_tasks[k].gamification.streak_bonus
                <=> context.duration_minutes > 20

\* the candidate the pass of the for loop under way looks at
Candidate == tasks[task_index]

\* the subject of the candidate is one of the list, compared in lower case
CandidateIn(subjects) ==
    \E k \in 1..Len(subjects) : Lower(subjects[k]) = Lower(Candidate.subject)

Rank(difficulty) ==
    CASE difficulty = "easy" -> 1 [] difficulty = "medium" -> 2 [] difficulty = "hard" -> 3

\* the difficulties of the candidate and of the task accepted for it are one
\* of the three, the second from the first by the step given
Stepped(accepted, step) ==
    /\ Candidate.difficulty \in {"easy", "medium", "hard"}
    /\ accepted.difficulty \in {"easy", "medium", "hard"}
    /\ Rank(accepted.difficulty) =
          (IF Rank(Candidate.difficulty) + step < 1 THEN 1
           ELSE IF Rank(Candidate.difficulty) + step > 3 THEN 3
           ELSE Rank(Candidate.difficulty) + step)

\* C18: the difficulty of an accepted task is that of its candidate one step
\* down (floor easy) if the subject is a weak subject, one step up (ceiling
\* hard) if it is a strong subject, unchanged otherwise; subjects are compared
\* in lower case.
C18_DifficultyStep ==
    [][(pc = "for_loop" /\ Len(validated_tasks') = Len(validated_tasks) + 1) =>
          LET accepted == validated_tasks'[Len(validated_tasks')]
          IN  /\ CandidateIn(context.weak_subjects) => Stepped(accepted, -1)
              /\ CandidateIn(context.strong_subjects) => Stepped(accepted, 1)
              /\ (~CandidateIn(context.weak_subjects)
                  /\ ~CandidateIn(context.strong_subjects)) => Stepped(accepted, 0)
      ]_vars

\* the hard task on 'Physics' and the easy one on 'chemistry', Physics weak
\* and Chemistry strong: both accepted, both at medium
C18_Witness ==
    /\ pc = "after_loop"
    /\ context.weak_subjects = <<"Physics">>
    /\ context.strong_subjects = <<"Chemistry">>
    /\ Len(tasks) >= 2
    /\ tasks[1].subject = "Physics" /\ tasks[1].difficulty = "hard"
    /\ tasks[2].subject = "chemistry" /\ tasks[2].difficulty = "easy"
    /\ Len(validated_tasks) = 2
    /\ validated_tasks[1].difficulty = "medium"
    /\ validated_tasks[2].difficulty = "medium"

----------------------------------------------------------------------------
(* Properties of the DailyCurriculum, checked under SpecGenerate *)

\* the curriculum under construction, returned or serialized
Curriculum == daily_curriculum

Built ==
    pc \in {"break_loop", "returned", "serialized"} /\ ~HasRaised(daily_curriculum)

\* the tasks of all breaks, as (break, position) pairs
TaskPlaces ==
    {place \in (1..Len(Curriculum.break_periods)) \X (1..MaxTasks) :
        place[2] <= Len(Curriculum.break_periods[place[1]].assigned_tasks)}

TaskOf(place) == Curriculum.break_periods[place[1]].assigned_tasks[place[2]]

RECURSIVE MinutesOfBreaks(_)
\* the sum of the durations of the tasks of the first n breaks
MinutesOfBreaks(n) ==
    IF n = 0 THEN 0
    ELSE MinutesOfBreaks(n - 1)
            + Sum([t \in 1..Len(Curriculum.break_periods[n].assigned_tasks) |->
                      Curriculum.break_periods[n].assigned_tasks[t].duration_minutes])

\* total_tasks and estimated_learning_time are those of the content
TotalsMatch ==
    /\ \A b \in 1..Len(Curriculum.break_periods) :
          Len(Curriculum.break_periods[b].assigned_tasks) <= MaxTasks
    /\ Curriculum.total_tasks = Cardinality(TaskPlaces)
    /\ Curriculum.estimated_learning_time = MinutesOfBreaks(Len(Curriculum.break_periods))

\* to_dict keeps the breaks in their order, the tasks of each in their order,
\* the totals, and the subjects covered
Serialized ==
    pc = "serialized" =>
        /\ Len(response.break_periods) = Len(Curriculum.break_periods)
        /\ \A b \in 1..Len(Curriculum.break_periods) :
              /\ response.break_periods[b].start_time = Curriculum.break_periods[b].start_time
              /\ response.break_periods[b].end_time = Curriculum.break_periods[b].end_time
              /\ Len(response.break_periods[b].assigned_tasks)
                    = Len(Curriculum.break_periods[b].assigned_tasks)
              /\ \A t \in 1..Len(Curriculum.break_periods[b].assigned_tasks) :
                    /\ response.break_periods[b].assigned_tasks[t].title
                          = Curriculum.break_periods[b].assigned_tasks[t].title
                    /\ response.break_periods[b].assigned_tasks[t].duration_minutes
                          = Curriculum.break_periods[b].assigned_tasks[t].duration_minutes
                    /\ response.break_periods[b].assigned_tasks[t].subject
                          = Curriculum.break_periods[b].assigned_tasks[t].subject
        /\ response.total_tasks = Curriculum.total_tasks
        /\ response.estimated_learning_time = Curriculum.estimated_learning_time
        /\ {response.subjects_covered[k] : k \in 1..Len(response.subjects_covered)}
              = Curriculum.subjects_covered
        /\ Len(response.subjects_covered) = Cardinality(Curriculum.subjects_covered)

\* C19 as stated: after any number of add_break_curriculum calls total_tasks
\* is the number of tasks, estimated_learning_time the sum of their durations
\* and subjects_covered the set of the subjects of all tasks; to_dict keeps
\* break order and task order.
C19_AsStated ==
    /\ Built =>
          /\ TotalsMatch
          /\ Curriculum.subjects_covered = {TaskOf(place).subject : place \in TaskPlaces}
    /\ Serialized

\* C19, amended: as stated, subjects_covered being the set of the non-empty
\* subjects of all tasks.
C19_DerivedTotals ==
    /\ Built =>
          /\ TotalsMatch
          /\ Curriculum.subjects_covered
                = {TaskOf(place).subject : place \in TaskPlaces} \ {""}
    /\ Serialized

\* two breaks with three tasks of two subjects, serialized
C19_Witness ==
    /\ pc = "serialized"
    /\ Len(Curriculum.break_periods) = 2
    /\ Curriculum.total_tasks = 3
    /\ Cardinality(Curriculum.subjects_covered) = 2
    /\ Len(response.break_periods[1].assigned_tasks)
          + Len(response.break_periods[2].assigned_tasks) = 3

\* C20: the break_periods of an assembled curriculum are the windows the
\* Schedule Analyzer returned, each once and in its order, a break without
\* task included; while the curriculum is assembled they are the windows
\* already handled, those still to do being the rest.
C20_BreakSequence ==
    /\ (pc = "break_loop" /\ ~HasRaised(daily_curriculum)) =>
          WithoutTasks(Curriculum.break_periods) \o break_periods
              = analyze_daily_schedule(Resolved)
    /\ (pc \in {"returned", "serialized"} /\ ~HasRaised(daily_curriculum)) =>
          /\ Len(Curriculum.break_periods) = Len(analyze_daily_schedule(Resolved))
          /\ \A k \in 1..Len(Curriculum.break_periods) :
                [Curriculum.break_periods[k] EXCEPT !.assigned_tasks = <<>>]
                    = analyze_daily_schedule(Resolved)[k]

\* Mathematics, Chemistry 10:05-10:10 and Physics 10:15: two breaks of 5
\* minutes in chronological order, neither with a task, both in the curriculum
C20_Witness ==
    /\ pc = "returned" /\ ~HasRaised(daily_curriculum)
    /\ Len(Curriculum.break_periods) = 2
    /\ Curriculum.break_periods[1].end_time = T(10, 5)
    /\ Curriculum.break_periods[2].start_time = T(10, 10)
    /\ Curriculum.break_periods[1].assigned_tasks = <<>>
    /\ Curriculum.break_periods[2].assigned_tasks = <<>>

----------------------------------------------------------------------------
(* Properties of the stores, checked under Spec *)

\* the scores a student has for a subject, <<>> without any
ScoresOf(db, id, subject) ==
    LET performance == db[id].academic_performance
    IN  IF \E k \in 1..Len(performance) : performance[k].subject = subject
        THEN performance[CHOOSE k \in 1..Len(performance) :
                            performance[k].subject = subject].scores
        ELSE <<>>

SubjectsOf(db, id) ==
    {db[id].academic_performance[k].subject : k \in 1..Len(db[id].academic_performance)}

IsPrefix(a, b) == Len(a) <= Len(b) /\ SubSeq(b, 1, Len(a)) = a

\* C21: score records are append-only: once a student id has a score sequence
\* for a subject, every later state of that id holds a sequence for that
\* subject of which the earlier one is a prefix, whatever request is handled.
C21_AppendOnly ==
    [][\A id \in DOMAIN students_db :
          /\ id \in DOMAIN students_db'
          /\ \A subject \in SubjectsOf(students_db, id) :
                /\ subject \in SubjectsOf(students_db', id)
                /\ IsPrefix(ScoresOf(students_db, id, subject),
                            ScoresOf(students_db', id, subject))
      ]_vars

\* a request has just been answered: the step from idle to idle that set the
\* response
Handled(endpoint) ==
    /\ pc = "idle" /\ pc' = "idle"
    /\ response' # None
    /\ response'.endpoint = endpoint

WellFormed(record) == {"subject", "score"} \subseteq DOMAIN record

\* the number of records of the request applied: those before the first
\* malformed one
AppliedCount(records) ==
    IF \A k \in 1..Len(records) : WellFormed(records[k]) THEN Len(records)
    ELSE (CHOOSE k \in 1..Len(records) :
             /\ ~WellFormed(records[k])
             /\ \A j \in 1..(k - 1) : WellFormed(records[j])) - 1

\* the scores of the first n records that are for the subject, in order
RECURSIVE ScoresFor(_, _, _)
ScoresFor(records, n, subject) ==
    IF n = 0 THEN <<>>
    ELSE ScoresFor(records, n - 1, subject)
            \o (IF records[n].subject = subject THEN <<records[n].score>> ELSE <<>>)

\* C27: update-performance applies the records in order and is not atomic:
\* with record k malformed the answer is 400, records 1..k-1 are appended to
\* the student's history and the records after k are not; for an unknown
\* student id the answer is 404 and no student changes.
C27_PartialUpdate ==
    [][(Handled("update-performance") /\ "student_id" \in DOMAIN response'.request) =>
          LET id == response'.request.student_id
              records == response'.request.performance
              n == AppliedCount(records)
          IN  IF id \notin DOMAIN students_db
              THEN response'.status = 404 /\ students_db' = students_db
              ELSE /\ response'.status = IF n < Len(records) THEN 400 ELSE 200
                   /\ DOMAIN students_db' = DOMAIN students_db
                   /\ \A other \in DOMAIN students_db \ {id} :
                         students_db'[other] = students_db[other]
                   /\ [students_db'[id] EXCEPT !.academic_performance = <<>>]
                         = [students_db[id] EXCEPT !.academic_performance = <<>>]
                   /\ \A subject \in SubjectsOf(students_db, id)
                                        \cup SubjectsOf(students_db', id)
                                        \cup {records[k].subject : k \in 1..n} :
                         ScoresOf(students_db', id, subject)
                             = ScoresOf(students_db, id, subject)
                                   \o ScoresFor(records, n, subject)
      ]_vars

\* a request of two records, the second without score, answered 400: the
\* first is in the history
C27_Witness ==
    /\ pc = "idle"
    /\ response # None
    /\ response.endpoint = "update-performance"
    /\ response.status = 400
    /\ "student_id" \in DOMAIN response.request
    /\ response.request.performance
          = <<[subject |-> "Physics", score |-> 40], [subject |-> "Physics"]>>
    /\ response.request.student_id \in DOMAIN students_db
    /\ ScoresOf(students_db, response.request.student_id, "Physics") = <<40>>

\* the request body is one that set_timetable accepts
ValidTimetable(data) ==
    /\ {"student_id", "classes"} \subseteq DOMAIN data
    /\ \A k \in 1..Len(data.classes) :
          {"start_time", "end_time", "subject"} \subseteq DOMAIN data.classes[k]

\* the places of the classes whose time range no earlier class has, and of
\* those whose time range no later class has
FirstOfRange(classes) ==
    {k \in 1..Len(classes) :
        \A j \in 1..(k - 1) : time_slot(classes[j]) # time_slot(classes[k])}

LastOfRange(classes, slot) ==
    CHOOSE k \in 1..Len(classes) :
        /\ time_slot(classes[k]) = slot
        /\ \A j \in (k + 1)..Len(classes) : time_slot(classes[j]) # slot

\* the schedule holds one class per time range of the request, the last one
\* added, the time ranges in the order they first appear
Collapsed(schedule, classes) ==
    /\ Len(schedule) = Cardinality(FirstOfRange(classes))
    /\ \A k \in 1..Len(schedule) :
          /\ schedule[k] = classes[LastOfRange(classes, time_slot(schedule[k]))]
          /\ Cardinality({j \in FirstOfRange(classes) :
                             j <= CHOOSE f \in FirstOfRange(classes) :
                                     time_slot(classes[f]) = time_slot(schedule[k])}) = k

\* C26: set-timetable is all-or-nothing on the store: a request without
\* student_id or classes, or with a class lacking start_time, end_time or
\* subject, is answered 400 and leaves the timetable store as it was; a
\* successful request replaces the whole timetable of (student_id, date) and
\* nothing else, and classes of the same time range collapse to the last one.
C26_AllOrNothing ==
    [][Handled("set-timetable") =>
          LET data == response'.request
          IN  IF ~ValidTimetable(data)
              THEN response'.status = 400 /\ timetables_db' = timetables_db
              ELSE LET key == <<data.student_id, data.date>>
                   IN  /\ response'.status = 200
                       /\ DOMAIN timetables_db' = DOMAIN timetables_db \cup {key}
                       /\ \A other \in DOMAIN timetables_db \ {key} :
                             timetables_db'[other] = timetables_db[other]
                       /\ timetables_db'[key].student_id = data.student_id
                       /\ timetables_db'[key].date = data.date
                       /\ Collapsed(timetables_db'[key].schedule, data.classes)
      ]_vars

\* a request with two classes of 10:07-10:30 has been stored: the timetable
\* holds the second of them only
C26_Witness ==
    /\ pc = "idle"
    /\ response # None
    /\ response.endpoint = "set-timetable"
    /\ response.status = 200
    /\ Len(response.request.classes) = 3
    /\ LET key == <<response.request.student_id, response.request.date>>
       IN  /\ key \in DOMAIN timetables_db
           /\ timetables_db[key].schedule
                 = <<Mathematics9, Class("Biology", T(10, 7), T(10, 30))>>

\* a step of a generation request: of the handler, or of the call it makes
GenerationStep ==
    \/ pc # "idle"
    \/ pc' # "idle"
    \/ Handled("generate-curriculum")

\* the break a pass of the loop has added could have been added, as it is, to
\* an empty curriculum
AddedAlone ==
    \E outcome \in LlmOutcomes :
        LET alone == BreakBody(DailyCurriculum(call.student.student_id, call.date),
                               Head(break_periods), call.student, outcome)
        IN  /\ ~HasRaised(alone)
            /\ daily_curriculum'.break_periods[Len(daily_curriculum'.break_periods)] = alone.break_periods[1]

\* C25: a generation request, succeeding or failing, leaves the stores as
\* they were: the registered students with their histories and attributes,
\* the per-student timetables and the section timetables; the student and
\* the schedule it works on are not modified; and a pass of the loop over
\* the breaks changes neither the breaks still to come nor the breaks
\* already in the curriculum, and adds what it would add to an empty
\* curriculum.
C25_Frame ==
    [][GenerationStep =>
          /\ students_db' = students_db
          /\ timetables_db' = timetables_db
          /\ section_timetables' = section_timetables
          /\ (pc # "idle" /\ pc' # "idle") => call' = call
          /\ pc' # "idle" => call'.student = students_db'[call'.student.student_id]
          /\ (pc = "break_loop" /\ break_periods # <<>> /\ ~HasRaised(daily_curriculum')) =>
                LET before == daily_curriculum.break_periods
                    after == daily_curriculum'.break_periods
                IN  /\ break_periods' = Tail(break_periods)
                    /\ Len(after) = Len(before) + 1
                    /\ \A k \in 1..Len(before) : after[k] = before[k]
                    /\ [after[Len(after)] EXCEPT !.assigned_tasks = <<>>] = Head(break_periods)
                    /\ before # <<>> => AddedAlone
      ]_vars

\* a request of a student with a score record and a section timetable of
\* two breaks has been assembled, with a task in each break
C25_Witness ==
    /\ pc = "returned"
    /\ call.caller = "app"
    /\ ~HasRaised(daily_curriculum)
    /\ Len(daily_curriculum.break_periods) = 2
    /\ \A k \in 1..2 : daily_curriculum.break_periods[k].assigned_tasks # <<>>
    /\ students_db[call.student.student_id].academic_performance # <<>>

----------------------------------------------------------------------------
(* Failure behaviour of analyze_daily_schedule, checked under SpecAnalyze *)

\* C22: analyze_daily_schedule never raises: for no timetable, a timetable
\* without schedule, an empty schedule, or a schedule with a class entry that
\* lacks start_time, end_time or subject or has a time that is not text, it
\* returns the empty sequence; a time string that does not parse is replaced
\* by the fallback time.
C22_NeverRaises ==
    /\ pc # "raised"
    /\ pc = "done" =>
          /\ (\/ timetable_dict = None
              \/ "schedule" \notin DOMAIN timetable_dict
              \/ timetable_dict.schedule = <<>>
              \/ \E k \in 1..Len(timetable_dict.schedule) :
                    timetable_dict.schedule[k] \in MalformedPool)
                => breaks = <<>>
          /\ (/\ timetable_dict = [schedule |-> <<Class("Mathematics", T(9, 0), T(10, 0)),
                                                  Class("Geography", BadTime, T(12, 0))>>])
                => breaks = <<[start_time |-> T(10, 0),
                               end_time |-> _time_to_string(Now),
                               duration_minutes |-> Now - 600,
                               break_type |-> _classify_break_type(Now - 600),
                               previous_class |-> Class("Mathematics", T(9, 0), T(10, 0)),
                               next_class |-> Class("Geography", BadTime, T(12, 0)),
                               assigned_tasks |-> <<>>]>>

----------------------------------------------------------------------------
(* Properties of get_subject_transitions, checked under SpecTransitions *)

\* the explicit related pairs: a subject and a subject listed with it
RelatedPairs ==
    { <<"mathematics", "physics">>, <<"mathematics", "chemistry">>,
      <<"mathematics", "computer science">>,
      <<"physics", "mathematics">>, <<"physics", "chemistry">>,
      <<"chemistry", "physics">>, <<"chemistry", "biology">>,
      <<"chemistry", "mathematics">>,
      <<"biology", "chemistry">>,
      <<"english", "literature">>, <<"english", "history">>,
      <<"history", "geography">>, <<"history", "social studies">> }

Matches(pair, a, b) == pair[1] \in Keywords(a) /\ pair[2] \in Keywords(b)

RelatedPair(a, b) ==
    \E pair \in RelatedPairs : Matches(pair, a, b) \/ Matches(pair, b, a)

Stem(a) ==
    Keywords(a) \cap {"mathematics", "physics", "chemistry", "biology", "computer"} # {}

\* the breaks that give a transition, in order
RECURSIVE Transiting(_)
Transiting(periods) ==
    IF periods = <<>> THEN <<>>
    ELSE (IF /\ Head(periods).previous_class # None
             /\ Head(periods).next_class # None
             /\ Head(periods).previous_class.subject # Head(periods).next_class.subject
          THEN <<Head(periods)>> ELSE <<>>) \o Transiting(Tail(periods))

\* C23: the transition type of a pair of subjects is decided in a fixed
\* order: a related pair in either direction gives 'related', also when both
\* subjects are STEM; otherwise STEM to non-STEM gives 'stem_to_humanities',
\* non-STEM to STEM 'humanities_to_stem', STEM to STEM 'stem_to_stem', and
\* everything else 'unrelated'; every pair has exactly one type.
C23_TransitionType ==
    pc = "done" =>
        /\ Len(transitions) = Len(Transiting(breaks))
        /\ \A k \in 1..Len(transitions) :
              LET a == transitions[k].from_subject
                  b == transitions[k].to_subject
                  type == transitions[k].transition_type
              IN  /\ a = Transiting(breaks)[k].previous_class.subject
                  /\ b = Transiting(breaks)[k].next_class.subject
                  /\ type \in {"related", "stem_to_humanities", "humanities_to_stem",
                               "stem_to_stem", "unrelated"}
                  /\ type = "related" <=> RelatedPair(a, b)
                  /\ type = "stem_to_humanities" <=>
                        (~RelatedPair(a, b) /\ Stem(a) /\ ~Stem(b))
                  /\ type = "humanities_to_stem" <=>
                        (~RelatedPair(a, b) /\ ~Stem(a) /\ Stem(b))
                  /\ type = "stem_to_stem" <=>
                        (~RelatedPair(a, b) /\ Stem(a) /\ Stem(b))
                  /\ type = "unrelated" <=>
                        (~RelatedPair(a, b) /\ ~Stem(a) /\ ~Stem(b))

\* Physics to Mathematics, both STEM, is 'related', and Mathematics to
\* Biology, not a related pair, is 'stem_to_stem'
C23_Witness ==
    /\ pc = "done"
    /\ Len(transitions) = 2
    /\ transitions[1].from_subject = "Physics"
    /\ transitions[1].to_subject = "Mathematics"
    /\ transitions[1].transition_type = "related"
    /\ transitions[2].from_subject = "Mathematics"
    /\ transitions[2].to_subject = "Biology"
    /\ transitions[2].transition_type = "stem_to_stem"

----------------------------------------------------------------------------
(* Properties of the selection of tasks, checked under SpecValidate *)

\* the minutes a candidate counts for
MinutesOf(task) == Get(task, "duration_minutes", 10)

\* a pass of the for loop
LoopPass == pc = "for_loop" /\ task_index <= Len(tasks)

\* the candidate of the pass fits what is left of the budget
CandidateFits ==
    total_duration + MinutesOf(Candidate) <= context.duration_minutes - 2

\* C24: validation skips, it does not stop: each pass of the loop looks at
\* the next candidate in the order returned; a candidate that fits what is
\* left of the budget is appended to the accepted tasks, one that does not
\* fit is skipped and the loop goes on to the candidates after it; the loop
\* ends only when 2 tasks are accepted or the candidates are exhausted.
C24_SkipNotStop ==
    [][pc = "for_loop" =>
          /\ LoopPass =>
                /\ task_index' = task_index + 1
                /\ CandidateFits =>
                      /\ Len(validated_tasks') = Len(validated_tasks) + 1
                      /\ SubSeq(validated_tasks', 1, Len(validated_tasks)) = validated_tasks
                      /\ validated_tasks'[Len(validated_tasks')].title = Candidate.title
                      /\ validated_tasks'[Len(validated_tasks')].subject = Candidate.subject
                      /\ MinutesOf(validated_tasks'[Len(validated_tasks')])
                            = MinutesOf(Candidate)
                      /\ total_duration' = total_duration + MinutesOf(Candidate)
                /\ ~CandidateFits =>
                      /\ validated_tasks' = validated_tasks
                      /\ total_duration' = total_duration
          /\ pc' = "after_loop" <=>
                (Len(validated_tasks') >= 2 \/ task_index > Len(tasks))
          /\ pc' \in {"for_loop", "after_loop"}
      ]_vars

\* a break of 10 minutes, the candidates of 20, 3 and 3 minutes: the first
\* is skipped and the two after it are accepted
C24_Witness ==
    /\ pc = "after_loop"
    /\ context.duration_minutes = 10
    /\ Len(tasks) = 3
    /\ MinutesOf(tasks[1]) = 20 /\ MinutesOf(tasks[2]) = 3 /\ MinutesOf(tasks[3]) = 3
    /\ Len(validated_tasks) = 2
    /\ validated_tasks[1].title = tasks[2].title
    /\ validated_tasks[2].title = tasks[3].title

\* C28: a break ends up with no task exactly when no candidate is of at most
\* break.duration - 2 minutes and the break is of at most 7 minutes; a break
\* of 8 minutes or more has 1 or 2 tasks.
C28_ZeroTasks ==
    pc = "done" =>
        /\ validated_tasks = <<>> <=>
              /\ \A k \in 1..Len(tasks) :
                    MinutesOf(tasks[k]) > context.duration_minutes - 2
              /\ context.duration_minutes <= 7
        /\ context.duration_minutes >= 8 => Len(validated_tasks) \in {1, 2}
        /\ Len(validated_tasks) <= 2

\* a break of 7 minutes whose candidates are all longer than 5 minutes is
\* left without task
C28_Witness ==
    /\ pc = "done"
    /\ context.duration_minutes = 7
    /\ Len(tasks) = 2
    /\ \A k \in 1..2 : MinutesOf(tasks[k]) > 5
    /\ validated_tasks = <<>>

\* the points of a task of the given minutes and difficulty
PointsFor(minutes, difficulty) ==
    CASE difficulty = "easy" -> minutes
      [] difficulty = "hard" -> 2 * minutes
      [] OTHER -> (3 * minutes) \div 2

\* C30: the points and the challenge level of an accepted task are those of
\* its candidate's difficulty as the generator returned it: points =
\* floor(duration x multiplier), multiplier 1.0 for easy, 1.5 for medium,
\* 2.0 for hard; when the difficulty is adjusted, the difficulty of the task
\* differs from its challenge level.
C30_OriginalDifficulty ==
    [][(LoopPass /\ Len(validated_tasks') = Len(validated_tasks) + 1) =>
          LET accepted == validated_tasks'[Len(validated_tasks')]
          IN  /\ accepted.gamification.challenge_level = Candidate.difficulty
              /\ accepted.gamification.points
                    = PointsFor(MinutesOf(Candidate), Candidate.difficulty)
              /\ (CandidateIn(context.weak_subjects) /\ Candidate.difficulty # "easy")
                    => accepted.difficulty # accepted.gamification.challenge_level
              /\ (/\ ~CandidateIn(context.weak_subjects)
                  /\ CandidateIn(context.strong_subjects)
                  /\ Candidate.difficulty # "hard")
                    => accepted.difficulty # accepted.gamification.challenge_level
      ]_vars

\* the hard task on 'Physics' without minutes, Physics weak: accepted at
\* medium with the 20 points and the challenge level of a hard task
C30_Witness ==
    /\ pc = "done"
    /\ context.weak_subjects = <<"Physics">>
    /\ Len(tasks) = 1
    /\ tasks[1].subject = "Physics" /\ tasks[1].difficulty = "hard"
    /\ "duration_minutes" \notin DOMAIN tasks[1]
    /\ Len(validated_tasks) = 1
    /\ validated_tasks[1].difficulty = "medium"
    /\ validated_tasks[1].gamification.challenge_level = "hard"
    /\ validated_tasks[1].gamification.points = 20

----------------------------------------------------------------------------
(* Properties of the static candidates, checked under SpecGenerate *)

\* the context of the k-th break of the curriculum
ContextOf(k) ==
    _build_generation_context([Assembled[k] EXCEPT !.assigned_tasks = <<>>],
                              call.student,
                              analyze_student_performance(call.student))

\* the static candidates of the k-th break
StaticCandidates(k) == _get_fallback_tasks(ContextOf(k))

\* the review of the first weak subject, the only static candidate that is
\* not a bridging, interest or generic one
IsWeakReview(task) == task.title[1] = "{} Quick Review"

\* C29: when the chat call of a break of d >= 5 minutes raises, the static
\* candidates are one or two; two have durations that sum to d, a single
\* bridging, interest or generic candidate has duration d; the break never
\* gets both candidates and never a bridging, interest or generic one: the
\* only static candidate it can get is the review of the weak subject, of
\* min(d div 2, 10) minutes.
C29_StaticCandidates ==
    HasCurriculum =>
        \A k \in 1..Len(Assembled) :
            llm_log[k] =>
                LET d == Assembled[k].duration_minutes
                    candidates == StaticCandidates(k)
                    given == Assembled[k].assigned_tasks
                IN  /\ d >= 5
                    /\ Len(candidates) \in {1, 2}
                    /\ Len(candidates) = 2 =>
                          /\ candidates[1].duration_minutes
                                + candidates[2].duration_minutes = d
                          /\ IsWeakReview(candidates[1])
                          /\ ~IsWeakReview(candidates[2])
                    /\ \A j \in 1..Len(candidates) :
                          IF IsWeakReview(candidates[j])
                          THEN candidates[j].duration_minutes = Min(d \div 2, 10)
                          ELSE Len(candidates) = 1 => candidates[j].duration_minutes = d
                    /\ Len(given) <= 1
                    /\ \A j \in 1..Len(given) :
                          /\ given[j].subject # "interdisciplinary"
                          /\ given[j].title # <<"Mindful Learning Review">>
                          /\ IsWeakReview(given[j]) =>
                                /\ given[j].duration_minutes = Min(d \div 2, 10)
                                /\ given[j].title = candidates[1].title
                    /\ IsWeakReview(candidates[1]) =>
                          (Len(given) = 1 /\ IsWeakReview(given[1]))

\* the chat call of the 15-minute break between Mathematics and Physics of a
\* student weak in Physics raises: of the review of 7 minutes and the
\* bridge of 8 minutes, the break gets the review only
C29_Witness ==
    /\ pc = "returned" /\ ~HasRaised(daily_curriculum)
    /\ llm_log = <<TRUE>>
    /\ Len(Assembled) = 1
    /\ Assembled[1].duration_minutes = 15
    /\ Len(StaticCandidates(1)) = 2
    /\ StaticCandidates(1)[2].title[1] = "{} to {} Bridge"
    /\ StaticCandidates(1)[2].duration_minutes = 8
    /\ Len(Assembled[1].assigned_tasks) = 1
    /\ IsWeakReview(Assembled[1].assigned_tasks[1])
    /\ Assembled[1].assigned_tasks[1].duration_minutes = 7

====
